---- MODULE Spec2Model ----
(***************************************************************************)
(* Lab inventory backend (Brivariky/lab-inventaris-backend).               *)
(*                                                                         *)
(* The repository holds five revisions of one REST server:                 *)
(*   "final"   src/server.js 665-1370  PostgreSQL, transactions, POST      *)
(*             /items checks the number of codes it created                *)
(*   "early"   src/server.js 1-571     the same without that check         *)
(*   "json"    src/server.js 572-664   a JSON file instead of a database   *)
(*   "part000" src/unnamed/part_000 76-494  PostgreSQL, one pooled         *)
(*             connection per statement, no transactions                   *)
(*   "part001" src/unnamed/part_001    PostgreSQL, transactions, existence *)
(*             checks through runQuerySingle on a second connection        *)
(* The model runs one revision per behaviour (rev).  A request is a slot   *)
(* of req; one step of the model is one awaited store call together with   *)
(* the synchronous JavaScript that follows it up to the next await.  Two   *)
(* calls that touch no row are taken with a neighbour: BEGIN with the      *)
(* pool.connect() before it, and a ROLLBACK with the step that leads to    *)
(* it.  The handlers of "json" are synchronous and run in one step.        *)
(*                                                                         *)
(* The relational store is PostgreSQL at its default isolation level READ  *)
(* COMMITTED: a statement sees the committed rows and the writes of its    *)
(* own transaction; a row written by an open transaction is locked, and a  *)
(* statement that needs that row waits until the transaction ends; the     *)
(* schema's FOREIGN KEY (item_id) REFERENCES items (id) ON DELETE CASCADE  *)
(* rejects a code whose item is absent and deletes the codes of a deleted  *)
(* item.  A store call may fail at any time (connectivity loss); a failed  *)
(* statement aborts the transaction, and a transaction that does not end   *)
(* by a successful COMMIT leaves no row behind.                            *)
(***************************************************************************)
EXTENDS Integers, Sequences, FiniteSets, TLC

(***************************************************************************)
(* Bounds of the model.                                                    *)
(***************************************************************************)
\* ids that uuidv4() hands out in one behaviour
MaxIds == 4
\* requests started in one behaviour
MaxReqs == 3
\* largest quantity of a POST /items body, in halves (3 = quantity 1.5)
MaxTwiceQuantity == 3
\* largest size of the connection pool
MaxPool == 2
\* times the server is started in one behaviour
MaxBoots == 2

\* two requests in flight at a time
SlotOrder == <<"r1", "r2">>
Reqs == {SlotOrder[k] : k \in 1..Len(SlotOrder)}

Revisions == {"final", "early", "json", "part000", "part001"}
PgRevisions == {"final", "early", "part000", "part001"}

\* a body field that is not present (JavaScript undefined)
ABSENT == "<absent>"
\* SQL NULL
NULL == "<null>"
\* an id field that is not present
NoId == -1

\* the bodies clients send.  POST /items: name, information, location;
\* the complete one goes with every quantity of Quantities, the others
\* with quantity 1
PostItemsBodies ==
  {<<"PC Desktop", "Lenovo", "Lab 1">>,
   <<ABSENT, "Lenovo", "Lab 1">>,
   <<"PC Desktop", "Lenovo", ABSENT>>}

\* PUT /items/:id: name, information, location
PutItemBodies ==
  {<<"Printer", ABSENT, "Lab 1">>,
   <<ABSENT, ABSENT, "Lab 1">>,
   <<"Printer", ABSENT, ABSENT>>}

\* POST /serial-numbers and PUT /serial-numbers/:id: serialNumber, status
SerialBodies == {<<ABSENT, ABSENT>>, <<"SN1", "broken">>}

\* a dateAdded that new Date(dateAdded) parses to an Invalid Date
UnparsableDate == "not a date"

VARIABLES
  rev,       \* the revision that is running
  items,     \* committed rows of table items
  codes,     \* committed rows of table inventory_codes
  tx,        \* per request: the open transaction of its client
  req,       \* per request slot: the handler in flight
  nextId,    \* number of ids uuidv4() has handed out: a handler is given
             \* the ids its uuidv4() calls return, nextId + 1 and on, when
             \* it starts
  started,   \* number of requests started
  dataFile,  \* the JSON-file revision's data.json
  clock,     \* Date.now() of the JSON-file revision
  boot,      \* the start of the server: where initDatabase is, the tables
             \* that exist, the pooled clients it holds, app.listen
  rooms      \* names of the rows of table rooms

vars ==
  <<rev, items, codes, tx, req, nextId, started, dataFile, clock, boot, rooms>>

(***************************************************************************)
(* Rows.                                                                   *)
(***************************************************************************)
ItemRow(id, name, information, location) ==
  [id |-> id, name |-> name, information |-> information, location |-> location]

CodeRow(id, itemId, kode, spesifikasi, status) ==
  [id |-> id, item_id |-> itemId, kode_inventaris |-> kode,
   spesifikasi |-> spesifikasi, status |-> status]

IdsOf(rows) == {row.id : row \in rows}

\* JavaScript's  x || d  on a body field
OrDefault(x, d) == IF x = ABSENT \/ x = "" THEN d ELSE x

(***************************************************************************)
(* The relational store.                                                   *)
(***************************************************************************)
NoTx == [st |-> "none", wI |-> {}, dI |-> {}, wC |-> {}, dC |-> {}]

InTx(r) == tx[r].st # "none"

\* what a statement on r's client sees: committed rows and r's own writes
ViewItems(r) ==
  {row \in items : row.id \notin (tx[r].dI \cup IdsOf(tx[r].wI))} \cup tx[r].wI

ViewCodes(r) ==
  {row \in codes : row.id \notin (tx[r].dC \cup IdsOf(tx[r].wC))} \cup tx[r].wC

\* another open transaction has updated or deleted item x (row lock)
ItemLockedByOther(r, x) ==
  \E o \in Reqs \ {r} : InTx(o) /\ x \in (tx[o].dI \cup IdsOf(tx[o].wI))

\* another open transaction has inserted a code of item x (FOR KEY SHARE
\* lock that the foreign-key check takes on the item)
ItemKeySharedByOther(r, x) ==
  \E o \in Reqs \ {r} : InTx(o) /\ \E c \in tx[o].wC : c.item_id = x

\* another open transaction has deleted code c
CodeLockedByOther(r, c) ==
  \E o \in Reqs \ {r} : InTx(o) /\ c \in tx[o].dC

CodesOfItem(rows, x) == {row \in rows : row.item_id = x}

\* a table inventory_codes declared without its FOREIGN KEY clause
NoForeignKey(r, x) == TRUE

\* FOREIGN KEY (item_id) REFERENCES items (id): the item a new code names
\* must be visible to the inserting statement
ForeignKeyHolds(r, x) == x \in IdsOf(ViewItems(r))

\* a FOREIGN KEY clause without ON DELETE CASCADE
NoCascade(r, x) == {}

\* ON DELETE CASCADE: the codes that go with item x when it is deleted
CascadedCodes(r, x) == CodesOfItem(ViewCodes(r), x)

\* INSERT INTO items on r's client
StoreInsertItem(t, row) == [t EXCEPT !.wI = @ \cup {row}]

\* INSERT INTO inventory_codes on r's client
StoreInsertCode(t, row) == [t EXCEPT !.wC = @ \cup {row}]

\* DELETE FROM inventory_codes WHERE item_id = x, or WHERE id = ..., given
\* the rows it hits
StoreDeleteCodes(t, hit) ==
  [t EXCEPT !.dC = @ \cup IdsOf(hit),
            !.wC = {row \in @ : row.id \notin IdsOf(hit)}]

\* DELETE FROM items WHERE id = x, given the codes the cascade takes along
StoreDeleteItem(t, x, cascade) ==
  [StoreDeleteCodes(t, cascade) EXCEPT
     !.dI = @ \cup {x},
     !.wI = {row \in @ : row.id # x}]

\* UPDATE items SET ... WHERE id = row.id
StoreUpdateItem(t, row) ==
  [t EXCEPT !.wI = {old \in @ : old.id # row.id} \cup {row}]

\* the committed rows once transaction t is applied
CommittedItems(t) ==
  {row \in items : row.id \notin (t.dI \cup IdsOf(t.wI))} \cup t.wI

CommittedCodes(t) ==
  {row \in codes : row.id \notin (t.dC \cup IdsOf(t.wC))} \cup t.wC

(***************************************************************************)
(* Requests.                                                               *)
(***************************************************************************)
AbsentQuantity == [t |-> "absent", twice |-> 0]

\* quantity values of a POST /items body: absent, the numbers 0, 0.5, 1, ...
\* and the strings "1", "2", ...; twice is two times the value
Quantities ==
  {AbsentQuantity}
    \cup {[t |-> "number", twice |-> k] : k \in 0..MaxTwiceQuantity}
    \cup {[t |-> "string", twice |-> 2 * k] : k \in 1..(MaxTwiceQuantity \div 2)}

\* the number 1
One == [t |-> "number", twice |-> 2]

NoBody ==
  [name |-> ABSENT, information |-> ABSENT, location |-> ABSENT,
   quantity |-> AbsentQuantity, itemId |-> NoId, serialNumber |-> ABSENT,
   specs |-> ABSENT, status |-> ABSENT, dateAdded |-> ABSENT]

\* a response: status, the itemId a 404 echoes, the ids of the rows a
\* listing returns, and the kind of err.message a 500 carries: "store" for
\* a store call that failed, "constraint" for a row the store rejected,
\* "check" for an Error the handler threw itself, "range" for the
\* RangeError of Date.prototype.toISOString
NoResp == [status |-> 0, echo |-> NoId, rows |-> {}, err |-> "none"]

Idle ==
  [h |-> "idle", pc |-> "idle", p |-> 0, b |-> NoBody, id |-> 0, i |-> 0,
   read |-> {}, client |-> FALSE, touched |-> FALSE, resp |-> NoResp]

\* !name || !location of POST /items and PUT /items/:id, !itemId of
\* POST /serial-numbers
LacksRequired(h, b) ==
  \/ h \in {"POST /items", "PUT /items/:id"} /\
       (b.name = ABSENT \/ b.location = ABSENT)
  \/ h = "POST /serial-numbers" /\ b.itemId = NoId

\* what a slot keeps of the body once the handler has returned: the
\* required fields and, when one of them is missing, all of it
Kept(rq) ==
  IF LacksRequired(rq.h, rq.b) THEN rq.b
  ELSE [NoBody EXCEPT !.name = rq.b.name, !.location = rq.b.location,
                      !.itemId = rq.b.itemId]

\* a handler without its finally block: the response, and the client kept
ReplyLeaking(rq, s, echo) ==
  [rq EXCEPT !.pc = "done",
             !.resp = [status |-> s, echo |-> echo, rows |-> {},
                       err |-> IF s = 500 THEN "store" ELSE "none"],
             !.b = Kept(rq),
             !.i = 0,
             !.read = {}]

\* res.status(s).json(...) followed by the finally block's client.release():
\* the handler has returned
Reply(rq, s, echo) ==
  [rq EXCEPT !.pc = "done",
             !.resp = [status |-> s, echo |-> echo, rows |-> {},
                       err |-> IF s = 500 THEN "store" ELSE "none"],
             !.b = Kept(rq),
             !.i = 0,
             !.read = {},
             !.client = FALSE]

\* res.status(500).json({ error: err.message })
Failed(rq, err) == [Reply(rq, 500, NoId) EXCEPT !.resp.err = err]

\* res.json(rows) of a listing
ReplyRows(rq, rows) ==
  [rq EXCEPT !.pc = "done",
             !.resp = [status |-> 200, echo |-> NoId, rows |-> rows,
                       err |-> "none"],
             !.b = NoBody]

\* the handler's promise rejects: the finally block runs, no response is sent
NoReply(rq) ==
  [rq EXCEPT !.pc = "done", !.b = Kept(rq), !.i = 0, !.read = {},
             !.client = FALSE]

At(r, h, pc) == req[r].h = h /\ req[r].pc = pc

\* quantity && quantity > 0
QuantityPositive(q) == q.t # "absent" /\ q.twice > 0

\* for (let i = 0; i < quantity; i++): whether the body runs again at i
LoopContinues(i, q) == 2 * i < q.twice

\* the number of times that loop runs
LoopIterations(q) == (q.twice + 1) \div 2

\* serialNumbers.length !== quantity
CountMismatch(n, q) == ~(q.t = "number" /\ q.twice = 2 * n)

\* the revisions whose POST /items compares the codes read back with quantity
HasCountCheck(rv) == rv = "final"

\* handlers whose pool.connect() is inside the try block
ConnectInTry(rv, h) ==
  rv \in {"final", "early"} /\ h \in {"POST /items", "POST /serial-numbers"}

\* handlers whose catch block wraps its ROLLBACK in a try of its own
CatchGuarded(rv, h) ==
  rv \in {"final", "early"} /\ h \in {"POST /items", "POST /serial-numbers"}

\* handlers of the transactional revisions that open a transaction
Transactional(rv, h) ==
  \/ rv \in {"final", "early"} /\
       h \in {"POST /items", "PUT /items/:id", "DELETE /items/:id",
              "POST /serial-numbers"}
  \/ rv = "part001" /\
       h \in {"POST /items", "PUT /items/:id", "DELETE /items/:id"}

\* where a handler goes after BEGIN
FirstStatement(h) ==
  CASE h = "POST /items" -> "insertItem"
    [] h = "PUT /items/:id" -> "check"
    [] h = "DELETE /items/:id" -> "check"
    [] h = "POST /serial-numbers" -> "check"

(***************************************************************************)
(* Steps shared by the transactional handlers.  A ROLLBACK that follows a  *)
(* failure is taken in the step of the failure: until it runs the          *)
(* transaction only holds its row locks, which keep other requests waiting *)
(* and show them nothing.                                                  *)
(***************************************************************************)
\* a store call of rq threw inside the try block.  The catch block awaits
\* ROLLBACK and answers 500; where that ROLLBACK is not in a try of its own
\* and fails, the handler rejects without a response.  Either way the
\* transaction is gone: rolled back, or lost with its connection.
Throw(r, rq, err) ==
  /\ tx' = [tx EXCEPT ![r] = NoTx]
  /\ \/ req' = [req EXCEPT ![r] = Failed(rq, err)]
     \/ /\ ~CatchGuarded(rev, rq.h)
        /\ req' = [req EXCEPT ![r] = NoReply(rq)]

\* a 404 path that returns without its ROLLBACK
NotFoundNoRollback(r, rq, echo) ==
  /\ req' = [req EXCEPT ![r] = Reply(rq, 404, echo)]
  /\ UNCHANGED tx

\* await client.query('ROLLBACK'); return res.status(404) in the try block;
\* a ROLLBACK that fails throws into the catch block
NotFound(r, rq, echo) ==
  \/ /\ tx' = [tx EXCEPT ![r] = NoTx]
     /\ req' = [req EXCEPT ![r] = Reply(rq, 404, echo)]
  \/ Throw(r, rq, "store")

\* client = await pool.connect(), and in a transactional handler
\* await client.query('BEGIN'): neither reads nor writes a row
Connect(r) ==
  /\ req[r].pc = "connect"
  /\ LET rq == [req[r] EXCEPT !.touched = TRUE]
     IN \/ /\ Transactional(rev, rq.h)
           /\ tx' = [tx EXCEPT ![r].st = "open"]
           /\ req' = [req EXCEPT ![r] =
                        [rq EXCEPT !.client = TRUE,
                                   !.pc = FirstStatement(rq.h)]]
        \/ /\ ~Transactional(rev, rq.h)
           /\ req' = [req EXCEPT ![r] =
                        [rq EXCEPT !.client = TRUE, !.pc = "insertCode"]]
           /\ UNCHANGED tx
        \/ /\ req' = [req EXCEPT ![r] =
                        IF ConnectInTry(rev, rq.h) THEN Reply(rq, 500, NoId)
                        ELSE NoReply(rq)]
           /\ UNCHANGED tx
        \/ /\ Transactional(rev, rq.h)
           /\ Throw(r, rq, "store")
  /\ UNCHANGED <<rev, boot, rooms,
                 items, codes, nextId, started, dataFile, clock>>

\* the status a handler answers once its COMMIT has succeeded
SuccessStatus(h) ==
  IF h \in {"POST /items", "POST /serial-numbers"} THEN 201 ELSE 200

\* await client.query('COMMIT'), then the success response
Commit(r) ==
  /\ req[r].pc = "commit"
  /\ \/ /\ tx[r].st = "open"
        /\ items' = CommittedItems(tx[r])
        /\ codes' = CommittedCodes(tx[r])
        /\ req' = [req EXCEPT ![r] = Reply(@, SuccessStatus(@.h), NoId)]
        /\ tx' = [tx EXCEPT ![r] = NoTx]
     \/ /\ Throw(r, req[r], "store")
        /\ UNCHANGED <<items, codes>>
  /\ UNCHANGED <<rev, boot, rooms, nextId, started, dataFile, clock>>

\* ids a client can name: those of committed rows, and 0 for an id that
\* matches no row
ParamItemIds == IdsOf(items) \cup {0}
ParamCodeIds == IdsOf(codes) \cup {0}

\* a slot whose handler has returned
Free(r) == req[r].pc \in {"idle", "done"}

\* the slot the next request enters
FirstFree(r) ==
  /\ Free(r)
  /\ \A k \in 1..Len(SlotOrder) :
       SlotOrder[k] = r => \A j \in 1..(k - 1) : ~Free(SlotOrder[j])

\* a request enters the first free slot
Accept(r, rq) ==
  /\ FirstFree(r)
  /\ started < MaxReqs
  /\ started' = started + 1
  /\ req' = [req EXCEPT ![r] = rq]

(***************************************************************************)
(* POST /items, transactional revisions.                                   *)
(***************************************************************************)
\* where POST /items goes once its inserts are done
AfterInserts(rv) == IF rv = "part001" THEN "commit" ELSE "selectItem"

\* the ids one POST /items draws from uuidv4(): "part000" reads no quantity
IdsNeeded(rv, q) == IF rv = "part000" THEN 1 ELSE 1 + LoopIterations(q)

\* the first store call of a handler: pool.connect() in the transactional
\* revisions, a helper call in "part000"
FirstStep(rv, pc) == IF rv = "part000" THEN pc ELSE "connect"

\* validation of the body, up to the first store call
PostItemsStart(r) ==
  /\ rev \in PgRevisions
  /\ \E f \in PostItemsBodies, quantity \in Quantities :
       LET b == [NoBody EXCEPT !.name = f[1], !.information = f[2],
                               !.location = f[3], !.quantity = quantity]
           rq == [Idle EXCEPT !.h = "POST /items", !.b = b]
       IN IF LacksRequired(rq.h, b)
          THEN /\ quantity = One
               /\ Accept(r, Reply(rq, 400, NoId))
               /\ UNCHANGED nextId
          ELSE /\ nextId + IdsNeeded(rev, quantity) <= MaxIds
               /\ nextId' = nextId + IdsNeeded(rev, quantity)
               /\ Accept(r, [rq EXCEPT !.id = nextId + 1,
                                       !.pc = FirstStep(rev, "insertItem")])
  /\ UNCHANGED <<rev, boot, rooms, items, codes, tx, dataFile, clock>>

\* const id = uuidv4(); INSERT INTO items
PostItemsInsertItem(r) ==
  /\ At(r, "POST /items", "insertItem")
  /\ rev # "part000"
  /\ LET id == req[r].id
         b == req[r].b
     IN \/ /\ tx' = [tx EXCEPT ![r] =
                       StoreInsertItem(@, ItemRow(id, b.name,
                                         OrDefault(b.information, ""),
                                         b.location))]
           /\ req' = [req EXCEPT ![r].pc = IF QuantityPositive(b.quantity)
                                           THEN "insertCode"
                                           ELSE AfterInserts(rev)]
        \/ Throw(r, req[r], "store")
  /\ UNCHANGED <<rev, boot, rooms,
                 items, codes, nextId, started, dataFile, clock>>

\* one turn of the loop: const serialId = uuidv4(); INSERT INTO inventory_codes
PostItemsInsertCode(r) ==
  /\ At(r, "POST /items", "insertCode")
  /\ LoopContinues(req[r].i, req[r].b.quantity)
  /\ \/ /\ tx' = [tx EXCEPT ![r] =
                    StoreInsertCode(@, CodeRow(req[r].id + 1 + req[r].i,
                                               req[r].id, "", "", "good"))]
        /\ req' = [req EXCEPT ![r] =
                     [@ EXCEPT !.i = @ + 1,
                               !.pc = IF LoopContinues(req[r].i + 1,
                                                       req[r].b.quantity)
                                      THEN "insertCode"
                                      ELSE AfterInserts(rev)]]
     \/ Throw(r, req[r], "store")
  /\ UNCHANGED <<rev, boot, rooms,
                 items, codes, nextId, started, dataFile, clock>>

\* SELECT * FROM items WHERE id = $1, the read-back of the new item
PostItemsSelectItem(r) ==
  /\ At(r, "POST /items", "selectItem")
  /\ rev # "part000"
  /\ \/ IF rev = "final" /\ req[r].id \notin IdsOf(ViewItems(r))
        THEN Throw(r, req[r], "check")
        ELSE /\ req' = [req EXCEPT ![r].pc =
                        IF rev = "early" \/ QuantityPositive(req[r].b.quantity)
                        THEN "selectCodes"
                        ELSE "commit"]
             /\ UNCHANGED tx
     \/ Throw(r, req[r], "store")
  /\ UNCHANGED <<rev, boot, rooms,
                 items, codes, nextId, started, dataFile, clock>>

\* SELECT ... FROM inventory_codes WHERE item_id = $1, the read-back of the
\* codes into serialNumbers (read), and the comparison of their number with
\* quantity
PostItemsSelectCodes(r) ==
  /\ At(r, "POST /items", "selectCodes")
  /\ \/ IF HasCountCheck(rev) /\
           CountMismatch(Cardinality(CodesOfItem(ViewCodes(r), req[r].id)),
                         req[r].b.quantity)
        THEN Throw(r, req[r], "check")
        ELSE /\ req' = [req EXCEPT ![r] =
                        [@ EXCEPT !.pc = "commit",
                                  !.read = CodesOfItem(ViewCodes(r), req[r].id)]]
             /\ UNCHANGED tx
     \/ Throw(r, req[r], "store")
  /\ UNCHANGED <<rev, boot, rooms,
                 items, codes, nextId, started, dataFile, clock>>

\* what the 201 of POST /items carries beside the array: the item row
\* ({ ...newItem, serialNumbers }), or in "part001" its id alone
\* ({ success, id, createdSerials })
ResponseHasItem(rv) == rv # "part001"

\* the elements of that array: code rows, or in "part001" the ids pushed
\* onto createdSerials
ResponseElements(rv) == IF rv = "part001" THEN "ids" ELSE "rows"

\* the array of the 201 of POST /items, from the handler's locals before
\* its COMMIT
ResponseSerials(rv, rq) ==
  IF rv = "part001" THEN {rq.id + k : k \in 1..rq.i} ELSE rq.read

(***************************************************************************)
(* PUT /items/:id and DELETE /items/:id, transactional revisions.          *)
(***************************************************************************)
PutItemStart(r) ==
  /\ rev \in PgRevisions
  /\ \E id \in ParamItemIds, f \in PutItemBodies :
       LET b == [NoBody EXCEPT !.name = f[1], !.information = f[2],
                               !.location = f[3]]
           rq == [Idle EXCEPT !.h = "PUT /items/:id", !.p = id, !.b = b]
       IN Accept(r, IF LacksRequired(rq.h, b)
                    THEN Reply(rq, 400, NoId)
                    ELSE [rq EXCEPT !.pc = FirstStep(rev, "update")])
  /\ UNCHANGED <<rev, boot, rooms, items, codes, tx, nextId, dataFile, clock>>

DeleteItemStart(r) ==
  /\ rev \in PgRevisions
  /\ \E id \in ParamItemIds :
       Accept(r, [Idle EXCEPT !.h = "DELETE /items/:id", !.p = id,
                              !.pc = FirstStep(rev, "deleteCodes")])
  /\ UNCHANGED <<rev, boot, rooms, items, codes, tx, nextId, dataFile, clock>>

\* the rows the existence check of r reads: on r's own client in "final" and
\* "early", through runQuerySingle on another pooled connection in "part001"
CheckedItems(r) == IF rev = "part001" THEN items ELSE ViewItems(r)

\* SELECT id FROM items WHERE id = $1; absent: ROLLBACK and 404
ItemCheck(r) ==
  /\ req[r].h \in {"PUT /items/:id", "DELETE /items/:id"}
  /\ req[r].pc = "check"
  /\ \/ IF req[r].p \notin IdsOf(CheckedItems(r))
        THEN NotFound(r, req[r], NoId)
        ELSE /\ req' = [req EXCEPT ![r].pc =
                        IF req[r].h = "PUT /items/:id" THEN "update"
                        ELSE "deleteCodes"]
             /\ UNCHANGED tx
     \/ Throw(r, req[r], "store")
  /\ UNCHANGED <<rev, boot, rooms,
                 items, codes, nextId, started, dataFile, clock>>

\* the value a body field is stored as when node-postgres binds it
Bound(x) == IF x = ABSENT THEN NULL ELSE x

\* UPDATE items SET name = $1, information = $2, location = $3 WHERE id = $4
PutItemUpdate(r) ==
  /\ At(r, "PUT /items/:id", "update")
  /\ rev # "part000"
  /\ LET id == req[r].p
         b == req[r].b
         next == IF rev = "part001" THEN "commit" ELSE "reselect"
     IN \/ /\ id \in IdsOf(ViewItems(r))
           /\ ~ItemLockedByOther(r, id)
           /\ tx' = [tx EXCEPT ![r] =
                       StoreUpdateItem(@, ItemRow(id, b.name,
                                         Bound(b.information), b.location))]
           /\ req' = [req EXCEPT ![r].pc = next]
        \/ /\ id \notin IdsOf(ViewItems(r))
           /\ req' = [req EXCEPT ![r].pc = next]
           /\ UNCHANGED tx
        \/ Throw(r, req[r], "store")
  /\ UNCHANGED <<rev, boot, rooms,
                 items, codes, nextId, started, dataFile, clock>>

\* SELECT * FROM items WHERE id = $1, the read-back of the updated item
PutItemReselect(r) ==
  /\ At(r, "PUT /items/:id", "reselect")
  /\ rev # "part000"
  /\ \/ req' = [req EXCEPT ![r].pc = "commit"] /\ UNCHANGED tx
     \/ Throw(r, req[r], "store")
  /\ UNCHANGED <<rev, boot, rooms,
                 items, codes, nextId, started, dataFile, clock>>

\* DELETE FROM inventory_codes WHERE item_id = $1
DeleteItemCodes(r) ==
  /\ At(r, "DELETE /items/:id", "deleteCodes")
  /\ rev # "part000"
  /\ LET hit == CodesOfItem(ViewCodes(r), req[r].p)
     IN \/ /\ \A c \in hit : ~CodeLockedByOther(r, c.id)
           /\ tx' = [tx EXCEPT ![r] = StoreDeleteCodes(@, hit)]
           /\ req' = [req EXCEPT ![r].pc = "deleteItem"]
        \/ Throw(r, req[r], "store")
  /\ UNCHANGED <<rev, boot, rooms,
                 items, codes, nextId, started, dataFile, clock>>

\* DELETE FROM items WHERE id = $1, with the schema's ON DELETE CASCADE
DeleteItemRow(r) ==
  /\ At(r, "DELETE /items/:id", "deleteItem")
  /\ rev # "part000"
  /\ LET id == req[r].p
     IN \/ /\ id \in IdsOf(ViewItems(r))
           /\ ~ItemLockedByOther(r, id)
           /\ ~ItemKeySharedByOther(r, id)
           /\ \A c \in CascadedCodes(r, id) : ~CodeLockedByOther(r, c.id)
           /\ tx' = [tx EXCEPT ![r] =
                       StoreDeleteItem(@, id, CascadedCodes(r, id))]
           /\ req' = [req EXCEPT ![r].pc = "commit"]
        \/ /\ id \notin IdsOf(ViewItems(r))
           /\ req' = [req EXCEPT ![r].pc = "commit"]
           /\ UNCHANGED tx
        \/ Throw(r, req[r], "store")
  /\ UNCHANGED <<rev, boot, rooms,
                 items, codes, nextId, started, dataFile, clock>>

(***************************************************************************)
(* POST /serial-numbers, revisions "final" and "early" (a transaction) and *)
(* "part001" (one INSERT on a pooled client, no check, no transaction).    *)
(***************************************************************************)
PostSerialStart(r) ==
  /\ rev \in PgRevisions
  /\ \E itemId \in {NoId} \cup ParamItemIds, f \in SerialBodies,
        dateAdded \in {ABSENT, UnparsableDate} :
       LET b == [NoBody EXCEPT !.itemId = itemId, !.serialNumber = f[1],
                               !.status = f[2], !.dateAdded = dateAdded]
           rq == [Idle EXCEPT !.h = "POST /serial-numbers", !.b = b]
       IN IF LacksRequired(rq.h, b)
          THEN /\ Accept(r, Reply(rq, 400, NoId))
               /\ UNCHANGED nextId
          ELSE /\ nextId + 1 <= MaxIds
               /\ nextId' = nextId + 1
               /\ Accept(r, [rq EXCEPT !.id = nextId + 1,
                                       !.pc = FirstStep(rev, "check")])
  /\ UNCHANGED <<rev, boot, rooms, items, codes, tx, dataFile, clock>>

\* SELECT * FROM items WHERE id = $1; absent: ROLLBACK and 404 with itemId
PostSerialCheck(r) ==
  /\ At(r, "POST /serial-numbers", "check")
  /\ rev # "part000"
  /\ \/ IF req[r].b.itemId \notin IdsOf(ViewItems(r))
        THEN NotFound(r, req[r], req[r].b.itemId)
        ELSE /\ req' = [req EXCEPT ![r].pc = "insertCode"]
             /\ UNCHANGED tx
     \/ Throw(r, req[r], "store")
  /\ UNCHANGED <<rev, boot, rooms,
                 items, codes, nextId, started, dataFile, clock>>

\* the row POST /serial-numbers inserts
NewCode(id, b) ==
  CodeRow(id, b.itemId, OrDefault(b.serialNumber, ""), OrDefault(b.specs, ""),
          OrDefault(b.status, "good"))

\* another open transaction has deleted item x: the foreign-key check of an
\* insert waits for it
ItemDeletedByOther(r, x) ==
  \E o \in Reqs \ {r} : InTx(o) /\ x \in tx[o].dI

\* the INSERT sent whatever new Date(dateAdded) is
PostSerialInsertAnyDate(r) ==
  /\ At(r, "POST /serial-numbers", "insertCode")
  /\ rev \in {"final", "early"}
  /\ LET id == req[r].id
         b == req[r].b
     IN \/ /\ ~ItemDeletedByOther(r, b.itemId)
           /\ ForeignKeyHolds(r, b.itemId)
           /\ tx' = [tx EXCEPT ![r] = StoreInsertCode(@, NewCode(id, b))]
           /\ req' = [req EXCEPT ![r].pc = "selectCode"]
        \/ /\ ~ItemDeletedByOther(r, b.itemId)
           /\ ~ForeignKeyHolds(r, b.itemId)
           /\ Throw(r, req[r], "constraint")
        \/ Throw(r, req[r], "store")
  /\ UNCHANGED <<rev, boot, rooms,
                 items, codes, nextId, started, dataFile, clock>>

\* const id = uuidv4(); INSERT INTO inventory_codes, in the transaction.
\* new Date(dateAdded).toISOString() is evaluated in the parameter list of
\* the query: an Invalid Date throws before the INSERT is sent
PostSerialInsert(r) ==
  /\ At(r, "POST /serial-numbers", "insertCode")
  /\ rev \in {"final", "early"}
  /\ LET id == req[r].id
         b == req[r].b
     IN \/ /\ b.dateAdded # UnparsableDate
           /\ ~ItemDeletedByOther(r, b.itemId)
           /\ ForeignKeyHolds(r, b.itemId)
           /\ tx' = [tx EXCEPT ![r] = StoreInsertCode(@, NewCode(id, b))]
           /\ req' = [req EXCEPT ![r].pc = "selectCode"]
        \/ /\ b.dateAdded # UnparsableDate
           /\ ~ItemDeletedByOther(r, b.itemId)
           /\ ~ForeignKeyHolds(r, b.itemId)
           /\ Throw(r, req[r], "constraint")
        \/ /\ b.dateAdded # UnparsableDate
           /\ Throw(r, req[r], "store")
        \/ /\ b.dateAdded = UnparsableDate
           /\ Throw(r, req[r], "range")
  /\ UNCHANGED <<rev, boot, rooms,
                 items, codes, nextId, started, dataFile, clock>>

\* the read-back of the new code; no row: ROLLBACK and throw
PostSerialSelect(r) ==
  /\ At(r, "POST /serial-numbers", "selectCode")
  /\ rev # "part000"
  /\ \/ IF req[r].id \in IdsOf(ViewCodes(r))
        THEN req' = [req EXCEPT ![r].pc = "commit"] /\ UNCHANGED tx
        ELSE Throw(r, req[r], "check")
     \/ Throw(r, req[r], "store")
  /\ UNCHANGED <<rev, boot, rooms,
                 items, codes, nextId, started, dataFile, clock>>

\* "part001": const id = uuidv4(); INSERT INTO inventory_codes; 201, or 500
\* from the catch block when the store rejects the row
PostSerialInsertPlain(r) ==
  /\ At(r, "POST /serial-numbers", "insertCode")
  /\ rev = "part001"
  /\ LET id == req[r].id
         b == req[r].b
     IN \/ /\ b.dateAdded # UnparsableDate
           /\ ~ItemDeletedByOther(r, b.itemId)
           /\ ForeignKeyHolds(r, b.itemId)
           /\ codes' = codes \cup {NewCode(id, b)}
           /\ req' = [req EXCEPT ![r] = Reply(@, 201, NoId)]
        \/ /\ b.dateAdded # UnparsableDate
           /\ ~ItemDeletedByOther(r, b.itemId)
           /\ ~ForeignKeyHolds(r, b.itemId)
           /\ req' = [req EXCEPT ![r] = Failed(@, "constraint")]
           /\ UNCHANGED codes
        \/ /\ b.dateAdded # UnparsableDate
           /\ req' = [req EXCEPT ![r] = Reply(@, 500, NoId)]
           /\ UNCHANGED codes
        \/ /\ b.dateAdded = UnparsableDate
           /\ req' = [req EXCEPT ![r] = Failed(@, "range")]
           /\ UNCHANGED codes
  /\ UNCHANGED <<rev, boot, rooms,
                 items, tx, nextId, started, dataFile, clock>>

(***************************************************************************)
(* Handlers built on runQuery, runQuerySingle and runQueryInsert: every    *)
(* call borrows a client, runs one statement in its own transaction and    *)
(* releases the client.  A failed call throws into the handler's catch     *)
(* block, which answers 500.                                               *)
(***************************************************************************)
\* the helper call of r failed: catch block, res.status(500)
HelperFailed(r) ==
  /\ req' = [req EXCEPT ![r] = Reply([@ EXCEPT !.touched = TRUE], 500, NoId)]
  /\ UNCHANGED <<items, codes>>

\* r moves on after a helper call
HelperDone(r, rq) == req' = [req EXCEPT ![r] = [rq EXCEPT !.touched = TRUE]]

PutSerialStart(r) ==
  /\ rev \in {"final", "early", "part000"}
  /\ \E id \in ParamCodeIds, f \in SerialBodies :
       Accept(r, [Idle EXCEPT !.h = "PUT /serial-numbers/:id", !.p = id,
                              !.b = [NoBody EXCEPT !.serialNumber = f[1],
                                                   !.status = f[2]],
                              !.pc = "updateCode"])
  /\ UNCHANGED <<rev, boot, rooms, items, codes, tx, nextId, dataFile, clock>>

\* the row PUT /serial-numbers/:id writes over row old
UpdatedCode(old, b) ==
  [old EXCEPT !.kode_inventaris = OrDefault(b.serialNumber, ""),
              !.spesifikasi = OrDefault(b.specs, ""),
              !.status = OrDefault(b.status, "good")]

\* runQueryInsert('UPDATE inventory_codes SET ... WHERE id = $4');
\* result.changes === 0: 404
PutSerialUpdate(r) ==
  /\ At(r, "PUT /serial-numbers/:id", "updateCode")
  /\ LET hit == {row \in codes : row.id = req[r].p}
     IN \/ /\ \A row \in hit : ~CodeLockedByOther(r, row.id)
           /\ codes' = (codes \ hit) \cup {UpdatedCode(row, req[r].b) : row \in hit}
           /\ UNCHANGED items
           /\ HelperDone(r, IF hit = {} THEN Reply(req[r], 404, NoId)
                            ELSE [req[r] EXCEPT !.pc = "selectCode"])
        \/ HelperFailed(r)
  /\ UNCHANGED <<rev, boot, rooms, tx, nextId, started, dataFile, clock>>

\* runQuerySingle(SELECT ... WHERE ic.id = $1), then res.json
PutSerialSelect(r) ==
  /\ At(r, "PUT /serial-numbers/:id", "selectCode")
  /\ \/ HelperDone(r, Reply(req[r], 200, NoId)) /\ UNCHANGED <<items, codes>>
     \/ HelperFailed(r)
  /\ UNCHANGED <<rev, boot, rooms, tx, nextId, started, dataFile, clock>>

DeleteSerialStart(r) ==
  /\ rev \in {"final", "early", "part000"}
  /\ \E id \in ParamCodeIds :
       Accept(r, [Idle EXCEPT !.h = "DELETE /serial-numbers/:id", !.p = id,
                              !.pc = "deleteCode"])
  /\ UNCHANGED <<rev, boot, rooms, items, codes, tx, nextId, dataFile, clock>>

\* the DELETE without its result.changes === 0 test: 200 whatever was deleted
DeleteSerialUnchecked(r) ==
  /\ At(r, "DELETE /serial-numbers/:id", "deleteCode")
  /\ codes' = {row \in codes : row.id # req[r].p}
  /\ UNCHANGED items
  /\ HelperDone(r, Reply(req[r], 200, NoId))
  /\ UNCHANGED <<rev, boot, rooms, tx, nextId, started, dataFile, clock>>

\* runQueryInsert('DELETE FROM inventory_codes WHERE id = $1');
\* result.changes === 0: 404
DeleteSerialDelete(r) ==
  /\ At(r, "DELETE /serial-numbers/:id", "deleteCode")
  /\ LET hit == {row \in codes : row.id = req[r].p}
     IN \/ /\ \A row \in hit : ~CodeLockedByOther(r, row.id)
           /\ codes' = codes \ hit
           /\ UNCHANGED items
           /\ HelperDone(r, Reply(req[r], IF hit = {} THEN 404 ELSE 200, NoId))
        \/ HelperFailed(r)
  /\ UNCHANGED <<rev, boot, rooms, tx, nextId, started, dataFile, clock>>

\* GET /serial-numbers/:id: the status runQuerySingle's row decides
GetSerialStatus(id) == IF id \in IdsOf(codes) THEN 200 ELSE 404

\* GET /serial-numbers: the ids of the rows runQuery returns
ListedSerialIds == IdsOf(codes)

\* GET /serial-numbers/:id
GetSerial(r) ==
  /\ rev \in {"final", "early", "part000"}
  /\ \E id \in ParamCodeIds :
       LET rq == [Idle EXCEPT !.h = "GET /serial-numbers/:id", !.p = id,
                              !.touched = TRUE]
       IN \/ Accept(r, Reply(rq, GetSerialStatus(id), NoId))
          \/ Accept(r, Reply(rq, 500, NoId))
  /\ UNCHANGED <<rev, boot, rooms, items, codes, tx, nextId, dataFile, clock>>

\* GET /serial-numbers
GetSerials(r) ==
  /\ rev \in PgRevisions
  /\ LET rq == [Idle EXCEPT !.h = "GET /serial-numbers", !.touched = TRUE]
     IN \/ Accept(r, ReplyRows(rq, ListedSerialIds))
        \/ Accept(r, Reply(rq, 500, NoId))
  /\ UNCHANGED <<rev, boot, rooms, items, codes, tx, nextId, dataFile, clock>>

(***************************************************************************)
(* Revision "part000": every statement through a helper, no transaction.   *)
(***************************************************************************)
\* runQueryInsert('INSERT INTO items ...', [id, name, information, location])
PlainInsertItem(r) ==
  /\ At(r, "POST /items", "insertItem")
  /\ rev = "part000"
  /\ LET id == req[r].id
         b == req[r].b
     IN \/ /\ items' = items \cup
                         {ItemRow(id, b.name, Bound(b.information), b.location)}
           /\ UNCHANGED codes
           /\ HelperDone(r, [req[r] EXCEPT !.pc = "selectItem"])
        \/ HelperFailed(r)
  /\ UNCHANGED <<rev, boot, rooms, tx, nextId, started, dataFile, clock>>

\* runQuerySingle('SELECT * FROM items WHERE id = $1'), then 201 or 200
PlainSelectItem(r) ==
  /\ rev = "part000"
  /\ \/ At(r, "POST /items", "selectItem")
     \/ At(r, "PUT /items/:id", "reselect")
  /\ \/ /\ HelperDone(r, Reply(req[r], SuccessStatus(req[r].h), NoId))
        /\ UNCHANGED <<items, codes>>
     \/ HelperFailed(r)
  /\ UNCHANGED <<rev, boot, rooms, tx, nextId, started, dataFile, clock>>

\* runQueryInsert('UPDATE items SET ... WHERE id = $4'); changes === 0: 404
PlainUpdateItem(r) ==
  /\ At(r, "PUT /items/:id", "update")
  /\ rev = "part000"
  /\ LET hit == {row \in items : row.id = req[r].p}
         b == req[r].b
     IN \/ /\ items' = (items \ hit) \cup
                         {ItemRow(row.id, b.name, Bound(b.information),
                                  b.location) : row \in hit}
           /\ UNCHANGED codes
           /\ HelperDone(r, IF hit = {} THEN Reply(req[r], 404, NoId)
                            ELSE [req[r] EXCEPT !.pc = "reselect"])
        \/ HelperFailed(r)
  /\ UNCHANGED <<rev, boot, rooms, tx, nextId, started, dataFile, clock>>

\* runQueryInsert('DELETE FROM inventory_codes WHERE item_id = $1')
PlainDeleteCodes(r) ==
  /\ At(r, "DELETE /items/:id", "deleteCodes")
  /\ rev = "part000"
  /\ \/ /\ codes' = codes \ CodesOfItem(codes, req[r].p)
        /\ UNCHANGED items
        /\ HelperDone(r, [req[r] EXCEPT !.pc = "deleteItem"])
     \/ HelperFailed(r)
  /\ UNCHANGED <<rev, boot, rooms, tx, nextId, started, dataFile, clock>>

\* runQueryInsert('DELETE FROM items WHERE id = $1'); changes === 0: 404
PlainDeleteItem(r) ==
  /\ At(r, "DELETE /items/:id", "deleteItem")
  /\ rev = "part000"
  /\ LET id == req[r].p
     IN \/ /\ items' = {row \in items : row.id # id}
           /\ codes' = codes \ (IF id \in IdsOf(items)
                                THEN CascadedCodes(r, id) ELSE {})
           /\ HelperDone(r, Reply(req[r], IF id \in IdsOf(items) THEN 200
                                          ELSE 404, NoId))
        \/ HelperFailed(r)
  /\ UNCHANGED <<rev, boot, rooms, tx, nextId, started, dataFile, clock>>

\* runQuerySingle('SELECT * FROM items WHERE id = $1'); no row: 404
PlainSerialCheck(r) ==
  /\ At(r, "POST /serial-numbers", "check")
  /\ rev = "part000"
  /\ \/ /\ HelperDone(r, IF req[r].b.itemId \in IdsOf(items)
                         THEN [req[r] EXCEPT !.pc = "insertCode"]
                         ELSE Reply(req[r], 404, NoId))
        /\ UNCHANGED <<items, codes>>
     \/ HelperFailed(r)
  /\ UNCHANGED <<rev, boot, rooms, tx, nextId, started, dataFile, clock>>

\* const id = uuidv4(); runQueryInsert('INSERT INTO inventory_codes ...')
PlainSerialInsert(r) ==
  /\ At(r, "POST /serial-numbers", "insertCode")
  /\ rev = "part000"
  /\ LET id == req[r].id
         b == req[r].b
     IN \/ /\ ForeignKeyHolds(r, b.itemId)
           /\ codes' = codes \cup {NewCode(id, b)}
           /\ UNCHANGED items
           /\ HelperDone(r, [req[r] EXCEPT !.pc = "selectCode"])
        \/ /\ ~ForeignKeyHolds(r, b.itemId)
           /\ HelperDone(r, Failed(req[r], "constraint"))
           /\ UNCHANGED <<items, codes>>
        \/ HelperFailed(r)
  /\ UNCHANGED <<rev, boot, rooms, tx, nextId, started, dataFile, clock>>

\* runQuerySingle(SELECT ... WHERE ic.id = $1), then 201
PlainSerialSelect(r) ==
  /\ At(r, "POST /serial-numbers", "selectCode")
  /\ rev = "part000"
  /\ \/ HelperDone(r, Reply(req[r], 201, NoId)) /\ UNCHANGED <<items, codes>>
     \/ HelperFailed(r)
  /\ UNCHANGED <<rev, boot, rooms, tx, nextId, started, dataFile, clock>>

(***************************************************************************)
(* Revision "json": data.json read, changed and written back by each       *)
(* handler in one synchronous run.  A serial number of the file is kept as *)
(* a code row: itemId as item_id, serialNumber as kode_inventaris, specs   *)
(* as spesifikasi.                                                         *)
(***************************************************************************)
\* largest value of Date.now() in one behaviour
MaxClock == 3

SeqIds(rows) == {rows[k].id : k \in 1..Len(rows)}

\* rows.findIndex(x => x.id === id), 0 for -1
FindIndex(rows, id) ==
  IF id \in SeqIds(rows)
  THEN CHOOSE k \in 1..Len(rows) :
         rows[k].id = id /\ \A j \in 1..(k - 1) : rows[j].id # id
  ELSE 0

\* rows.splice(k, 1)
Splice(rows, k) == [j \in 1..(Len(rows) - 1) |-> IF j < k THEN rows[j] ELSE rows[j + 1]]

\* { ...old, ...body }: a field of the body that is present replaces old's
Merged(old, new) == IF new = ABSENT THEN old ELSE new

\* a request of the JSON-file revision runs to its response in one step
JsonRun(r, rq, data) ==
  /\ rev = "json"
  /\ Accept(r, rq)
  /\ dataFile' = data
  /\ UNCHANGED <<rev, boot, rooms, items, codes, tx, nextId, clock>>

\* time passes between two requests
Tick ==
  /\ rev = "json"
  /\ clock < MaxClock
  /\ clock' = clock + 1
  /\ UNCHANGED <<rev, boot, rooms,
                 items, codes, tx, req, nextId, started, dataFile>>

\* app.post('/items') pushing onto the data of a file that does not exist
JsonPostItemsOfNoFile(r) ==
  \E f \in PostItemsBodies :
    LET b == [NoBody EXCEPT !.name = f[1], !.information = f[2],
                            !.location = f[3]]
        row == ItemRow(clock, f[1], f[2], f[3])
    IN JsonRun(r, Reply([Idle EXCEPT !.h = "POST /items", !.b = b,
                                     !.id = clock, !.touched = TRUE],
                        201, NoId),
               [items |-> <<row>>, serialNumbers |-> <<>>])

\* app.post('/items'): newItem = { ...req.body, id: Date.now().toString() }
JsonPostItems(r) ==
  \E f \in PostItemsBodies :
    LET b == [NoBody EXCEPT !.name = f[1], !.information = f[2],
                            !.location = f[3]]
        row == ItemRow(clock, f[1], f[2], f[3])
    IN JsonRun(r, Reply([Idle EXCEPT !.h = "POST /items", !.b = b,
                                     !.id = clock, !.touched = TRUE],
                        201, NoId),
               [dataFile EXCEPT !.items = Append(@, row)])

\* app.post('/serial-numbers'): newSerial = { ...req.body, id: Date.now() }
JsonPostSerial(r) ==
  \E itemId \in {NoId, 0} \cup SeqIds(dataFile.items), f \in SerialBodies :
    LET b == [NoBody EXCEPT !.itemId = itemId, !.serialNumber = f[1],
                            !.status = f[2]]
        row == CodeRow(clock, itemId, f[1], ABSENT, f[2])
    IN JsonRun(r, Reply([Idle EXCEPT !.h = "POST /serial-numbers", !.b = b,
                                     !.id = clock, !.touched = TRUE],
                        201, NoId),
               [dataFile EXCEPT !.serialNumbers = Append(@, row)])

\* app.put('/serial-numbers/:id')
JsonPutSerial(r) ==
  \E id \in {0} \cup SeqIds(dataFile.serialNumbers), f \in SerialBodies :
    LET serialNumber == f[1]
        status == f[2]
        b == [NoBody EXCEPT !.serialNumber = serialNumber, !.status = status]
        rq == [Idle EXCEPT !.h = "PUT /serial-numbers/:id", !.p = id, !.b = b,
                           !.touched = TRUE]
        idx == FindIndex(dataFile.serialNumbers, id)
        old == dataFile.serialNumbers[idx]
    IN IF idx = 0
       THEN JsonRun(r, Reply(rq, 404, NoId), dataFile)
       ELSE JsonRun(r, Reply(rq, 200, NoId),
                    [dataFile EXCEPT !.serialNumbers[idx] =
                       [old EXCEPT
                          !.kode_inventaris = Merged(@, serialNumber),
                          !.status = Merged(@, status)]])

\* app.delete('/serial-numbers/:id')
JsonDeleteSerial(r) ==
  \E id \in {0} \cup SeqIds(dataFile.serialNumbers) :
    LET rq == [Idle EXCEPT !.h = "DELETE /serial-numbers/:id", !.p = id,
                           !.touched = TRUE]
        idx == FindIndex(dataFile.serialNumbers, id)
    IN IF idx = 0
       THEN JsonRun(r, Reply(rq, 404, NoId), dataFile)
       ELSE JsonRun(r, Reply(rq, 200, NoId),
                    [dataFile EXCEPT !.serialNumbers = Splice(@, idx)])

\* app.put('/items/:id')
JsonPutItem(r) ==
  \E id \in {0} \cup SeqIds(dataFile.items), f \in PutItemBodies :
    LET name == f[1]
        information == f[2]
        location == f[3]
        b == [NoBody EXCEPT !.name = name, !.information = information,
                            !.location = location]
        rq == [Idle EXCEPT !.h = "PUT /items/:id", !.p = id, !.b = b,
                           !.touched = TRUE]
        idx == FindIndex(dataFile.items, id)
        old == dataFile.items[idx]
    IN IF idx = 0
       THEN JsonRun(r, Reply(rq, 404, NoId), dataFile)
       ELSE JsonRun(r, Reply(rq, 200, NoId),
                    [dataFile EXCEPT !.items[idx] =
                       [old EXCEPT !.name = Merged(@, name),
                                   !.information = Merged(@, information),
                                   !.location = Merged(@, location)]])

\* app.delete('/items/:id'): the item, and the serial numbers whose itemId
\* is the id
JsonDeleteItem(r) ==
  \E id \in {0} \cup SeqIds(dataFile.items) :
    LET rq == [Idle EXCEPT !.h = "DELETE /items/:id", !.p = id,
                           !.touched = TRUE]
        idx == FindIndex(dataFile.items, id)
    IN IF idx = 0
       THEN JsonRun(r, Reply(rq, 404, NoId), dataFile)
       ELSE JsonRun(r, Reply(rq, 200, NoId),
                    [items |-> Splice(dataFile.items, idx),
                     serialNumbers |->
                       SelectSeq(dataFile.serialNumbers,
                                 LAMBDA row : row.item_id # id)])

\* app.get('/serial-numbers')
JsonGetSerials(r) ==
  JsonRun(r, ReplyRows([Idle EXCEPT !.h = "GET /serial-numbers",
                                    !.touched = TRUE],
                       SeqIds(dataFile.serialNumbers)),
          dataFile)

(***************************************************************************)
(* The server.                                                             *)
(***************************************************************************)
\* the tables initDatabase creates
AllTables == {"items", "inventory_codes"}

\* the rows of the store
Store(itemRows, codeRows) == [items |-> itemRows, codes |-> codeRows]

\* the server the handlers above run in: initDatabase has returned, both
\* tables exist and app.listen has run
Booted ==
  [pc |-> "done", i |-> 0, held |-> 0, size |-> MaxPool, tables |-> AllTables,
   listening |-> TRUE, failed |-> FALSE, before |-> Store({}, {})]

Init ==
  /\ rev \in Revisions
  /\ items = {}
  /\ codes = {}
  /\ tx = [r \in Reqs |-> NoTx]
  /\ req = [r \in Reqs |-> Idle]
  /\ nextId = 0
  /\ started = 0
  /\ dataFile = [items |-> <<>>, serialNumbers |-> <<>>]
  /\ clock = 1
  /\ boot = Booted
  /\ rooms = {}

Next ==
  \/ \E r \in Reqs :
       \/ Connect(r) \/ Commit(r)
       \/ PostItemsStart(r) \/ PostItemsInsertItem(r) \/ PostItemsInsertCode(r)
       \/ PostItemsSelectItem(r) \/ PostItemsSelectCodes(r)
       \/ PutItemStart(r) \/ DeleteItemStart(r) \/ ItemCheck(r)
       \/ PutItemUpdate(r) \/ PutItemReselect(r)
       \/ DeleteItemCodes(r) \/ DeleteItemRow(r)
       \/ PostSerialStart(r) \/ PostSerialCheck(r) \/ PostSerialInsert(r)
       \/ PostSerialSelect(r) \/ PostSerialInsertPlain(r)
       \/ PutSerialStart(r) \/ PutSerialUpdate(r) \/ PutSerialSelect(r)
       \/ DeleteSerialStart(r) \/ DeleteSerialDelete(r)
       \/ GetSerial(r) \/ GetSerials(r)
       \/ PlainInsertItem(r) \/ PlainSelectItem(r) \/ PlainUpdateItem(r)
       \/ PlainDeleteCodes(r) \/ PlainDeleteItem(r)
       \/ PlainSerialCheck(r) \/ PlainSerialInsert(r) \/ PlainSerialSelect(r)
       \/ JsonPostItems(r) \/ JsonPostSerial(r) \/ JsonPutSerial(r)
       \/ JsonDeleteSerial(r) \/ JsonPutItem(r) \/ JsonDeleteItem(r)
       \/ JsonGetSerials(r)
  \/ Tick

Spec == Init /\ [][Next]_vars

(***************************************************************************)
(* Properties.                                                             *)
(***************************************************************************)
\* request r enters its slot in this step
Entered(r) == FirstFree(r) /\ started' = started + 1

\* the handler of r returns in this step
Returns(r) == req'[r].pc = "done" /\ (~Free(r) \/ Entered(r))

\* the committed codes of item x after this step
CodesAfter(x) == CodesOfItem(codes', x)

\* the steps of the create transaction of POST /items
CreateSteps == {"insertItem", "insertCode", "selectItem", "selectCodes", "commit"}

\* C1: POST /items is all-or-nothing.  While its create transaction runs,
\* the new item and its codes are in no committed table; when the handler
\* returns without a 201 the response is a 500 and neither the item nor a
\* code of it is stored; and the item never becomes visible with fewer codes
\* than the quantity asked for.
PostItemsAllOrNothing ==
  [][\A r \in Reqs :
       (/\ Transactional(rev, "POST /items")
        /\ req[r].h = "POST /items"
        /\ req[r].pc \in CreateSteps)
       => LET id == req[r].id
              stored == id \in IdsOf(items') \/ CodesAfter(id) # {}
          IN /\ req'[r].pc # "done" => ~stored
             /\ (req'[r].pc = "done" /\ req'[r].resp.status # 201)
                  => req'[r].resp.status = 500 /\ ~stored
             /\ id \in IdsOf(items')
                  => 2 * Cardinality(CodesAfter(id)) >= req[r].b.quantity.twice
    ]_vars

\* C2: a POST /items with quantity N, an integer or absent for 0, that is
\* answered 201 leaves the new item stored with exactly N codes of its own,
\* each under an id no other code has, with status 'good' and empty
\* kode_inventaris and spesifikasi.
PostItemsCreatesNCodes ==
  [][\A r \in Reqs :
       (/\ rev \in PgRevisions
        /\ req[r].h = "POST /items"
        /\ ~Free(r)
        /\ req[r].b.quantity.t # "string"
        /\ req[r].b.quantity.twice % 2 = 0
        /\ req'[r].pc = "done"
        /\ req'[r].resp.status = 201)
       => LET id == req[r].id
          IN /\ id \in IdsOf(items')
             /\ 2 * Cardinality(CodesAfter(id)) = req[r].b.quantity.twice
             /\ \A c \in CodesAfter(id) :
                  /\ c.status = "good"
                  /\ c.kode_inventaris = ""
                  /\ c.spesifikasi = ""
                  /\ \A d \in codes' : d.id = c.id => d = c
    ]_vars

\* C3: a POST /items with quantity > 0 is never answered 201 while the
\* number of codes committed for the new item differs from the quantity,
\* whatever the type of the quantity; answered otherwise, it leaves nothing.
PostItemsCountMatches ==
  [][\A r \in Reqs :
       (/\ Transactional(rev, "POST /items")
        /\ req[r].h = "POST /items"
        /\ ~Free(r)
        /\ QuantityPositive(req[r].b.quantity)
        /\ req'[r].pc = "done")
       => LET id == req[r].id
          IN IF req'[r].resp.status = 201
             THEN 2 * Cardinality(CodesAfter(id)) = req[r].b.quantity.twice
             ELSE CodesAfter(id) = {}
    ]_vars

\* C4: in every state every stored code names, as its item_id, an item that
\* is stored: in the tables of the PostgreSQL revisions and in data.json.
NoOrphanCode ==
  /\ \A c \in codes : c.item_id \in IdsOf(items)
  /\ \A k \in 1..Len(dataFile.serialNumbers) :
       dataFile.serialNumbers[k].item_id \in SeqIds(dataFile.items)

\* what DELETE /items/:id with id x owned before this step: ids of codes
OwnedBefore(x) ==
  IdsOf(CodesOfItem(codes, x)) \cup
    {dataFile.serialNumbers[k].id :
       k \in {j \in 1..Len(dataFile.serialNumbers) :
                dataFile.serialNumbers[j].item_id = x}}

\* C5: once DELETE /items/:id is answered 200, neither the item nor a code
\* with its id as item_id is stored; GET /serial-numbers/:id is 404 for
\* every code the item owned, and GET /serial-numbers lists none of them.
DeleteItemRemovesAll ==
  [][\A r \in Reqs :
       (/\ req'[r].h = "DELETE /items/:id"
        /\ Returns(r)
        /\ req'[r].resp.status = 200)
       => LET x == req'[r].p
          IN /\ x \notin IdsOf(items') \cup SeqIds(dataFile'.items)
             /\ CodesAfter(x) = {}
             /\ \A k \in 1..Len(dataFile'.serialNumbers) :
                  dataFile'.serialNumbers[k].item_id # x
             /\ \A c \in OwnedBefore(x) :
                  /\ c \notin IdsOf(codes')
                  /\ c \notin SeqIds(dataFile'.serialNumbers)
    ]_vars

\* C6: DELETE /items/:id is all-or-nothing: no step of the handler takes a
\* code of the item out of the committed table and leaves the item in it,
\* and a handler that answers 500 has taken nothing out.
DeleteItemAllOrNothing ==
  [][\A r \in Reqs :
       (/\ rev \in PgRevisions
        /\ req[r].h = "DELETE /items/:id"
        /\ ~Free(r)
        /\ req'[r] # req[r])
       => LET x == req[r].p
          IN (CodesOfItem(codes, x) \ codes' # {}) => x \notin IdsOf(items')
    ]_vars

\* C7: in the PostgreSQL revisions, whatever way a DELETE /items/:id and a
\* POST /serial-numbers for the same item interleave, once the DELETE has
\* been answered 200 no stored code has the deleted item as its item_id.
DeleteRacingInsertLeavesNoCode ==
  \A r \in Reqs :
    (/\ rev \in PgRevisions
     /\ req[r].h = "DELETE /items/:id"
     /\ req[r].pc = "done"
     /\ req[r].resp.status = 200)
    => CodesOfItem(codes, req[r].p) = {}

\* C8: POST /serial-numbers with an itemId that never named an item is
\* answered 404 with the itemId echoed, unless a store call failed, and
\* creates no code.
PostSerialUnknownItem ==
  [][\A r \in Reqs :
       (/\ rev \in PgRevisions
        /\ req'[r].h = "POST /serial-numbers"
        /\ Returns(r)
        /\ req'[r].b.itemId # NoId
        /\ req'[r].b.itemId \notin 1..nextId)
       => /\ \/ /\ req'[r].resp.status = 404
                /\ req'[r].resp.echo = req'[r].b.itemId
             \/ /\ req'[r].resp.status \in {0, 500}
                /\ req'[r].resp.err \in {"none", "store"}
          /\ codes' = codes
    ]_vars

\* C9: a PUT /items/:id or PUT /serial-numbers/:id whose body lacks a
\* required field is answered 400 and changes no stored row.
UpdateLackingFieldRejected ==
  [][\A r \in Reqs :
       (/\ req'[r].h \in {"PUT /items/:id", "PUT /serial-numbers/:id"}
        /\ Returns(r)
        /\ LacksRequired(req'[r].h, req'[r].b))
       => /\ req'[r].resp.status = 400
          /\ UNCHANGED <<items, codes, dataFile>>
    ]_vars

\* C10: a POST /items without name or location, or a POST /serial-numbers
\* without itemId, is answered 400 with no connection borrowed, no
\* statement issued and the stored state unchanged.
CreateLackingFieldRejected ==
  [][\A r \in Reqs :
       (/\ req'[r].h \in {"POST /items", "POST /serial-numbers"}
        /\ Returns(r)
        /\ LacksRequired(req'[r].h, req'[r].b))
       => /\ req'[r].resp.status = 400
          /\ ~req'[r].touched
          /\ ~req'[r].client
          /\ UNCHANGED <<items, codes, tx, dataFile>>
    ]_vars

\* a DELETE /items/:id answered 200 and a POST /serial-numbers for the same
\* item whose insert the store rejected, both returned
DeleteRacedInsert ==
  \E r, o \in Reqs :
    /\ rev \in {"final", "part000"}
    /\ req[r].h = "DELETE /items/:id"
    /\ req[r].pc = "done"
    /\ req[r].resp.status = 200
    /\ req[o].h = "POST /serial-numbers"
    /\ req[o].pc = "done"
    /\ req[o].b.itemId = req[r].p
    /\ req[o].resp.err = "constraint"

\* C11: PUT /items/:id answers by the effect of its UPDATE: when the item is
\* not there as the UPDATE runs (a DELETE committed since the existence
\* check), the handler does not go on to its 200 but returns with 404, or
\* with a failure when a store call failed.
PutItemAnswersByEffect ==
  [][\A r \in Reqs :
       (/\ rev \in PgRevisions
        /\ At(r, "PUT /items/:id", "update")
        /\ req'[r] # req[r]
        /\ req[r].p \notin IdsOf(ViewItems(r)))
       => /\ req'[r].pc = "done"
          /\ req'[r].resp.status \in {404, 500, 0}
    ]_vars

\* C14: a handler that has returned holds no client of the pool, whatever
\* path it took: with no request in flight no connection is borrowed.
NoBorrowedConnection ==
  \A r \in Reqs : Free(r) => ~req[r].client

\* a POST /serial-numbers that borrowed its client, had its INSERT rejected
\* by the store and returned through the catch block
ReturnedAfterStoreError ==
  \E r \in Reqs :
    /\ rev = "final"
    /\ req[r].h = "POST /serial-numbers"
    /\ req[r].pc = "done"
    /\ req[r].resp.err = "constraint"

\* C15: no transaction is open on the client of a handler that has
\* returned: every BEGIN was followed by COMMIT or ROLLBACK before the
\* response and the release, on the 404 paths and after store failures too.
NoOpenTransaction ==
  \A r \in Reqs : Free(r) => tx[r] = NoTx

\* a transactional handler that answered 404 after BEGIN and its check
ReturnedNotFound ==
  \E r \in Reqs :
    /\ Transactional(rev, req[r].h)
    /\ req[r].pc = "done"
    /\ req[r].resp.status = 404

\* C16: every handler that returns has sent a response, after a failed store
\* call too.
EveryRequestAnswered ==
  \A r \in Reqs : req[r].pc = "done" => req[r].resp.status # 0

\* C17: no two stored items share an id and no two stored codes share an
\* id, in the tables and in data.json.
IdsNeverShared ==
  /\ \A a, b \in items : a.id = b.id => a = b
  /\ \A a, b \in codes : a.id = b.id => a = b
  /\ \A j, k \in 1..Len(dataFile.items) :
       dataFile.items[j].id = dataFile.items[k].id => j = k
  /\ \A j, k \in 1..Len(dataFile.serialNumbers) :
       dataFile.serialNumbers[j].id = dataFile.serialNumbers[k].id => j = k

\* C18: the 201 of POST /items with quantity N, an integer or absent for 0,
\* carries the created item and an array of code rows that are exactly the
\* codes stored for the item: N of them, each with status 'good' and
\* kode_inventaris ''.
PostItemsResponseListsCodes ==
  [][\A r \in Reqs :
       (/\ Transactional(rev, "POST /items")
        /\ At(r, "POST /items", "commit")
        /\ req[r].b.quantity.t # "string"
        /\ req[r].b.quantity.twice % 2 = 0
        /\ req'[r].pc = "done"
        /\ req'[r].resp.status = 201)
       => /\ ResponseHasItem(rev)
          /\ req[r].id \in IdsOf(items')
          /\ ResponseElements(rev) = "rows"
          /\ ResponseSerials(rev, req[r]) = CodesAfter(req[r].id)
          /\ 2 * Cardinality(ResponseSerials(rev, req[r])) =
               req[r].b.quantity.twice
          /\ \A c \in ResponseSerials(rev, req[r]) :
               c.status = "good" /\ c.kode_inventaris = ""
    ]_vars

(***************************************************************************)
(* The handlers run one after another, with timestamps: what the rows hold *)
(* and what the responses carry when no store call fails and no two        *)
(* requests overlap.  A handler runs to its response in one step.  Here    *)
(* items and codes hold rows with their timestamp columns, clock is the    *)
(* time, and req is the last request with its response.  The time of the   *)
(* database (CURRENT_TIMESTAMP, microseconds) moves on from one request to *)
(* the next; Date.now() of the JSON-file revision (milliseconds) may stay. *)
(***************************************************************************)
\* requests run in one behaviour
MaxRuns == 4
\* ids handed out in one behaviour
MaxRowIds == 5
\* latest time of a request
MaxTime == 5

\* a timestamp, or the date string a client sends: wall-clock digits and the
\* offset from UTC they are written with
NoDate == [t |-> "absent", wall |-> 0, offset |-> 0]
Stamp(n) == [t |-> "date", wall |-> n, offset |-> 0]

\* new Date(dateAdded).toISOString(): the same instant written in UTC; a
\* string that is no date throws RangeError
ToISOString(d) == Stamp(d.wall - d.offset)

\* dateAdded of a POST /serial-numbers body: absent, a UTC date, the same
\* instant written with an offset, a string that is no date
DateInputs ==
  {NoDate,
   [t |-> "date", wall |-> 9, offset |-> 0],
   [t |-> "date", wall |-> 10, offset |-> 1],
   [t |-> "invalid", wall |-> 0, offset |-> 0]}

TimedItem(id, name, information, location, created, updated) ==
  [id |-> id, name |-> name, information |-> information,
   location |-> location, created_at |-> created, updated_at |-> updated]

TimedCode(id, itemId, kode, spesifikasi, status, added, created, updated) ==
  [id |-> id, item_id |-> itemId, kode_inventaris |-> kode,
   spesifikasi |-> spesifikasi, status |-> status, date_added |-> added,
   created_at |-> created, updated_at |-> updated]

\* req.body of the sequential runs
SeqBody ==
  [name |-> ABSENT, information |-> ABSENT, location |-> ABSENT,
   quantity |-> AbsentQuantity, itemId |-> NoId, serialNumber |-> ABSENT,
   specs |-> ABSENT, status |-> ABSENT, dateAdded |-> NoDate]

\* a request and its response: handler, :id, body, status, and the rows of
\* the response in their order
Exchange(h, p, b, status, list) ==
  [h |-> h, p |-> p, b |-> b, status |-> status, list |-> list]

NoExchange == Exchange("idle", 0, SeqBody, 0, <<>>)

\* the orders in which a query without ORDER BY may return rows
Listings(rows) ==
  {s \in [1..Cardinality(rows) -> rows] :
     \A j, k \in 1..Cardinality(rows) : s[j] = s[k] => j = k}

\* ORDER BY key ASC: rows with equal keys come in any order
OrderedAsc(rows, key) ==
  {s \in Listings(rows) :
     \A j \in 1..(Cardinality(rows) - 1) : s[j][key].wall <= s[j + 1][key].wall}

\* ORDER BY key DESC
OrderedDesc(rows, key) ==
  {s \in Listings(rows) :
     \A j \in 1..(Cardinality(rows) - 1) : s[j][key].wall >= s[j + 1][key].wall}

\* one request runs: it is counted and its exchange kept
Ran(x) ==
  /\ started < MaxRuns
  /\ started' = started + 1
  /\ req' = x

\* a request of a PostgreSQL revision runs at the next instant
PgRan(x) ==
  /\ rev \in PgRevisions
  /\ clock < MaxTime
  /\ clock' = clock + 1
  /\ Ran(x)
  /\ UNCHANGED <<rev, boot, rooms, tx, dataFile>>

\* a request of the JSON-file revision runs at the time it is
JsonRan(x) ==
  /\ rev = "json"
  /\ Ran(x)
  /\ UNCHANGED <<rev, boot, rooms, tx, items, codes, nextId, clock>>

SeqTick ==
  /\ rev = "json"
  /\ clock < MaxClock
  /\ clock' = clock + 1
  /\ UNCHANGED <<rev, boot, rooms,
                 items, codes, tx, req, nextId, started, dataFile>>

\* quantity of the POST /items bodies of the sequential runs: absent, 2
SeqQuantities == {AbsentQuantity, [t |-> "number", twice |-> 4]}

\* name, information, location of those bodies; the one without name goes
\* with quantity 2 only
SeqItemBodies ==
  {<<"PC Desktop", "Lenovo", "Lab 1">>, <<ABSENT, "Lenovo", "Lab 1">>}

\* the codes the loop of POST /items inserts for item id in a transaction
\* begun at now: created_at and updated_at are the column default
\* CURRENT_TIMESTAMP, date_added is new Date().toISOString()
BlankCodes(id, n, now) ==
  {TimedCode(id + k, id, "", "", "good", Stamp(now), Stamp(now), Stamp(now)) :
     k \in 1..n}

\* the serialNumbers of the 201: read back ORDER BY ic.created_at ASC when
\* quantity is positive ("final"), read back without ORDER BY ("early"),
\* absent ("part000"), the ids in the order of their insertion ("part001")
CreatedListings(rv, q, id, rows) ==
  CASE rv = "final" ->
         IF QuantityPositive(q) THEN OrderedAsc(rows, "created_at") ELSE {<<>>}
    [] rv = "early" -> Listings(rows)
    [] rv = "part000" -> {<<>>}
    [] rv = "part001" ->
         {[k \in 1..Cardinality(rows) |-> [id |-> id + k]]}

\* app.post('/items') of the PostgreSQL revisions
SeqPostItems ==
  /\ rev \in PgRevisions
  /\ \E f \in SeqItemBodies, q \in SeqQuantities :
       LET b == [SeqBody EXCEPT !.name = f[1], !.information = f[2],
                                !.location = f[3], !.quantity = q]
           h == "POST /items"
           now == clock + 1
           id == nextId + 1
           n == IF rev # "part000" /\ QuantityPositive(q)
                THEN LoopIterations(q) ELSE 0
           information == IF rev = "part000" THEN Bound(f[2])
                          ELSE OrDefault(f[2], "")
           rows == BlankCodes(id, n, now)
       IN IF LacksRequired(h, b)
          THEN /\ q # AbsentQuantity
               /\ PgRan(Exchange(h, 0, b, 400, <<>>))
               /\ UNCHANGED <<items, codes, nextId>>
          ELSE /\ nextId + 1 + n <= MaxRowIds
               /\ nextId' = nextId + 1 + n
               /\ items' = items \cup
                    {TimedItem(id, f[1], information, f[3], Stamp(now), Stamp(now))}
               /\ codes' = codes \cup rows
               /\ \E list \in CreatedListings(rev, q, id, rows) :
                    PgRan(Exchange(h, id, b, 201, list))

\* the ids a client names in the sequential runs
SeqItemIds == IdsOf(items) \cup SeqIds(dataFile.items) \cup {0}

\* what GET /items/:id answers from a store: the rows of SELECT * FROM items
\* WHERE id = $1; the JSON-file revision has no such route, and its client
\* finds the item in the list of GET /items
GotItem(rows, file, id) ==
  IF rev = "json"
  THEN IF FindIndex(file.items, id) = 0 THEN <<>>
       ELSE <<file.items[FindIndex(file.items, id)]>>
  ELSE IF id \in IdsOf(rows) THEN <<CHOOSE row \in rows : row.id = id>>
       ELSE <<>>

\* app.get('/items/:id')
SeqGetItem ==
  \E id \in SeqItemIds :
    LET got == GotItem(items, dataFile, id)
        x == Exchange("GET /items/:id", id, SeqBody,
                      IF got = <<>> THEN 404 ELSE 200, got)
    IN \/ PgRan(x) /\ UNCHANGED <<items, codes, nextId>>
       \/ JsonRan(x) /\ UNCHANGED dataFile

\* bodies of PUT /items/:id: name, information, location
SeqPutItemBodies ==
  {<<"Printer", "HP", "Lab 2">>, <<"Printer", ABSENT, "Lab 2">>,
   <<ABSENT, ABSENT, "Lab 2">>}

\* app.put('/items/:id') of the PostgreSQL revisions: 400, 404, or UPDATE
\* items SET name = $1, information = $2, location = $3, updated_at =
\* CURRENT_TIMESTAMP WHERE id = $4
SeqPutItem ==
  \E id \in SeqItemIds, f \in SeqPutItemBodies :
    LET b == [SeqBody EXCEPT !.name = f[1], !.information = f[2],
                             !.location = f[3]]
        h == "PUT /items/:id"
        now == clock + 1
        hit == {row \in items : row.id = id}
    IN /\ PgRan(Exchange(h, id, b,
                         IF LacksRequired(h, b) THEN 400
                         ELSE IF hit = {} THEN 404 ELSE 200,
                         <<>>))
       /\ items' = IF LacksRequired(h, b) THEN items
                   ELSE (items \ hit) \cup
                          {[row EXCEPT !.name = f[1],
                                       !.information = Bound(f[2]),
                                       !.location = f[3],
                                       !.updated_at = Stamp(now)] : row \in hit}
       /\ UNCHANGED <<codes, nextId>>

\* a row of data.json: the body's fields under the columns' names, no
\* timestamp column
FileItem(id, f) == TimedItem(id, f[1], f[2], f[3], NoDate, NoDate)

\* app.post('/items') of the JSON-file revision
SeqJsonPostItems ==
  \E f \in SeqItemBodies :
    LET b == [SeqBody EXCEPT !.name = f[1], !.information = f[2],
                             !.location = f[3]]
    IN /\ JsonRan(Exchange("POST /items", clock, b, 201, <<FileItem(clock, f)>>))
       /\ dataFile' = [dataFile EXCEPT !.items = Append(@, FileItem(clock, f))]

\* app.put('/items/:id') of the JSON-file revision
SeqJsonPutItem ==
  \E id \in SeqItemIds, f \in SeqPutItemBodies :
    LET b == [SeqBody EXCEPT !.name = f[1], !.information = f[2],
                             !.location = f[3]]
        idx == FindIndex(dataFile.items, id)
        old == dataFile.items[idx]
        new == [old EXCEPT !.name = Merged(@, f[1]),
                           !.information = Merged(@, f[2]),
                           !.location = Merged(@, f[3])]
    IN IF idx = 0
       THEN /\ JsonRan(Exchange("PUT /items/:id", id, b, 404, <<>>))
            /\ UNCHANGED dataFile
       ELSE /\ JsonRan(Exchange("PUT /items/:id", id, b, 200, <<new>>))
            /\ dataFile' = [dataFile EXCEPT !.items[idx] = new]

\* serialNumber, specs, status of the bodies of POST /serial-numbers; a
\* dateAdded goes with the first only
BlankSerial == <<ABSENT, ABSENT, ABSENT>>
SeqSerialBodies == {BlankSerial, <<"SN1", "i5", "broken">>}

\* serialNumber, specs, status of the bodies of PUT /serial-numbers/:id
SeqPutSerialBodies == {BlankSerial, <<"SN2", ABSENT, "maintenance">>}

\* the date_added a POST /serial-numbers stores: dateAdded ? new
\* Date(dateAdded).toISOString() : new Date().toISOString(); "part000" does
\* not read dateAdded and leaves the column to its default CURRENT_TIMESTAMP
AddedDate(rv, d, now) ==
  IF rv = "part000" \/ d.t = "absent" THEN Stamp(now) ELSE ToISOString(d)

\* the status POST /serial-numbers answers with: 400 without itemId; 404
\* from the existence check, which "part001" does not have, so that the
\* foreign key rejects the row and the catch block answers 500; 500 when
\* new Date(dateAdded).toISOString() throws
PostSerialStatus(rv, itemId, d) ==
  CASE itemId = NoId -> 400
    [] itemId # NoId /\ itemId \notin IdsOf(items) ->
         IF rv = "part001" THEN 500 ELSE 404
    [] itemId \in IdsOf(items) /\ d.t = "invalid" /\ rv # "part000" -> 500
    [] OTHER -> 201

\* app.post('/serial-numbers') of the PostgreSQL revisions
SeqPostSerial ==
  /\ rev \in PgRevisions
  /\ \E itemId \in IdsOf(items) \cup {0, NoId}, f \in SeqSerialBodies,
        d \in DateInputs :
       LET b == [SeqBody EXCEPT !.itemId = itemId, !.serialNumber = f[1],
                                !.specs = f[2], !.status = f[3], !.dateAdded = d]
           now == clock + 1
           id == nextId + 1
           status == PostSerialStatus(rev, itemId, d)
           row == TimedCode(id, itemId, OrDefault(f[1], ""), OrDefault(f[2], ""),
                            OrDefault(f[3], "good"), AddedDate(rev, d, now),
                            Stamp(now), Stamp(now))
       IN IF status = 201
          THEN /\ d = NoDate \/ f = BlankSerial
               /\ nextId + 1 <= MaxRowIds
               /\ nextId' = nextId + 1
               /\ codes' = codes \cup {row}
               /\ PgRan(Exchange("POST /serial-numbers", id, b, 201, <<row>>))
               /\ UNCHANGED items
          ELSE /\ f = BlankSerial
               /\ d.t # "date"
               /\ PgRan(Exchange("POST /serial-numbers", 0, b, status, <<>>))
               /\ UNCHANGED <<items, codes, nextId>>

\* app.post('/serial-numbers') of the JSON-file revision: the body as it is,
\* under a new id
SeqJsonPostSerial ==
  \E itemId \in SeqIds(dataFile.items) \cup {NoId}, f \in SeqSerialBodies,
     d \in DateInputs :
    LET b == [SeqBody EXCEPT !.itemId = itemId, !.serialNumber = f[1],
                             !.specs = f[2], !.status = f[3], !.dateAdded = d]
        row == TimedCode(clock, itemId, f[1], f[2], f[3], d, NoDate, NoDate)
    IN /\ d = NoDate \/ f = BlankSerial
       /\ JsonRan(Exchange("POST /serial-numbers", clock, b, 201, <<row>>))
       /\ dataFile' = [dataFile EXCEPT !.serialNumbers = Append(@, row)]

SeqCodeIds == IdsOf(codes) \cup SeqIds(dataFile.serialNumbers) \cup {0}

\* app.put('/serial-numbers/:id') of "final", "early" and "part000": UPDATE
\* inventory_codes SET kode_inventaris = $1, spesifikasi = $2, status = $3,
\* updated_at = CURRENT_TIMESTAMP WHERE id = $4
SeqPutSerial ==
  \E id \in SeqCodeIds, f \in SeqPutSerialBodies :
    LET b == [SeqBody EXCEPT !.serialNumber = f[1], !.specs = f[2],
                             !.status = f[3]]
        now == clock + 1
        hit == {row \in codes : row.id = id}
    IN /\ rev # "part001"
       /\ PgRan(Exchange("PUT /serial-numbers/:id", id, b,
                         IF hit = {} THEN 404 ELSE 200, <<>>))
       /\ codes' = (codes \ hit) \cup
            {[row EXCEPT !.kode_inventaris = OrDefault(f[1], ""),
                         !.spesifikasi = OrDefault(f[2], ""),
                         !.status = OrDefault(f[3], "good"),
                         !.updated_at = Stamp(now)] : row \in hit}
       /\ UNCHANGED <<items, nextId>>

\* app.put('/serial-numbers/:id') of the JSON-file revision
SeqJsonPutSerial ==
  \E id \in SeqCodeIds, f \in SeqPutSerialBodies :
    LET b == [SeqBody EXCEPT !.serialNumber = f[1], !.specs = f[2],
                             !.status = f[3]]
        idx == FindIndex(dataFile.serialNumbers, id)
        old == dataFile.serialNumbers[idx]
        new == [old EXCEPT !.kode_inventaris = Merged(@, f[1]),
                           !.spesifikasi = Merged(@, f[2]),
                           !.status = Merged(@, f[3])]
    IN IF idx = 0
       THEN /\ JsonRan(Exchange("PUT /serial-numbers/:id", id, b, 404, <<>>))
            /\ UNCHANGED dataFile
       ELSE /\ JsonRan(Exchange("PUT /serial-numbers/:id", id, b, 200, <<new>>))
            /\ dataFile' = [dataFile EXCEPT !.serialNumbers[idx] = new]

\* app.get('/serial-numbers'): ORDER BY ic.date_added DESC; the JSON-file
\* revision answers data.serialNumbers as it is
SeqGetSerials ==
  \/ \E list \in OrderedDesc(codes, "date_added") :
       /\ PgRan(Exchange("GET /serial-numbers", 0, SeqBody, 200, list))
       /\ UNCHANGED <<items, codes, nextId>>
  \/ /\ JsonRan(Exchange("GET /serial-numbers", 0, SeqBody, 200,
                         dataFile.serialNumbers))
     /\ UNCHANGED dataFile

\* COUNT(*) in place of COUNT(ic.id): the row a LEFT JOIN keeps for an item
\* without codes is counted
ItemCountsOfJoinRows(row, rows) ==
  LET own == CodesOfItem(rows, row.id)
  IN [jumlah |-> IF own = {} THEN 1 ELSE Cardinality(own),
      baik |-> Cardinality({c \in own : c.status = "good"}),
      rusak |-> Cardinality({c \in own : c.status = "broken"})]

\* COUNT(ic.id) AS jumlah, COUNT(CASE WHEN ic.status = 'good' THEN 1 END) AS
\* baik, COUNT(CASE WHEN ic.status = 'broken' THEN 1 END) AS rusak of
\* items i LEFT JOIN inventory_codes ic ON ic.item_id = i.id GROUP BY i.id
ItemCounts(row, rows) ==
  LET own == CodesOfItem(rows, row.id)
  IN [jumlah |-> Cardinality(own),
      baik |-> Cardinality({c \in own : c.status = "good"}),
      rusak |-> Cardinality({c \in own : c.status = "broken"})]

\* app.get('/items-with-counts'): SELECT i.*, COUNT(ic.id) as serial_count
\* ... GROUP BY i.id ORDER BY i.created_at DESC
SeqGetItemsWithCounts ==
  /\ rev \in {"final", "early", "part000"}
  /\ \E list \in OrderedDesc(items, "created_at") :
       PgRan(Exchange("GET /items-with-counts", 0, SeqBody, 200,
                      [k \in 1..Len(list) |->
                         list[k] @@ [serial_count |->
                                       ItemCounts(list[k], codes).jumlah]]))
  /\ UNCHANGED <<items, codes, nextId>>

\* app.get('/items'): ORDER BY created_at DESC, in "final" with the counts
\* of each item's codes; the JSON-file revision answers data.items as it is
SeqGetItems ==
  \/ \E list \in OrderedDesc(items, "created_at") :
       /\ PgRan(Exchange("GET /items", 0, SeqBody, 200,
                         IF rev = "final"
                         THEN [k \in 1..Len(list) |->
                                 list[k] @@ ItemCounts(list[k], codes)]
                         ELSE list))
       /\ UNCHANGED <<items, codes, nextId>>
  \/ /\ JsonRan(Exchange("GET /items", 0, SeqBody, 200, dataFile.items))
     /\ UNCHANGED dataFile

\* the rooms of the revision with rooms: the locations the bodies above name
RoomNames == {"Lab 1", "Lab 2"}

\* DELETE /rooms/:id of the revision that adds rooms to "final": begin,
\* verify existence (404 if absent), delete every item whose location is
\* the room's name, their codes going with them by ON DELETE CASCADE, delete
\* the room, commit
SeqDeleteRoom ==
  /\ rev = "final"
  /\ clock < MaxTime
  /\ clock' = clock + 1
  /\ \E name \in RoomNames :
       LET hit == IF name \in rooms
                  THEN {row \in items : row.location = name} ELSE {}
       IN /\ Ran(Exchange("DELETE /rooms/:id", 0,
                          [SeqBody EXCEPT !.location = name],
                          IF name \in rooms THEN 200 ELSE 404, <<>>))
          /\ items' = items \ hit
          /\ codes' = codes \ UNION {CascadedCodes("r1", row.id) : row \in hit}
          /\ rooms' = rooms \ {name}
  /\ UNCHANGED <<rev, boot, tx, nextId, dataFile>>

SeqInit ==
  /\ rev \in Revisions
  /\ items = {}
  /\ codes = {}
  /\ tx = [r \in Reqs |-> NoTx]
  /\ req = NoExchange
  /\ nextId = 0
  /\ started = 0
  /\ dataFile = [items |-> <<>>, serialNumbers |-> <<>>]
  /\ clock = 1
  /\ boot = Booted
  /\ rooms = IF rev = "final" THEN RoomNames ELSE {}

SeqNext ==
  \/ SeqPostItems \/ SeqGetItem \/ SeqPutItem \/ SeqGetItems
  \/ SeqGetItemsWithCounts
  \/ SeqDeleteRoom
  \/ SeqPostSerial \/ SeqPutSerial \/ SeqGetSerials
  \/ SeqJsonPostItems \/ SeqJsonPutItem
  \/ SeqJsonPostSerial \/ SeqJsonPutSerial
  \/ SeqTick

SeqSpec == SeqInit /\ [][SeqNext]_vars

(***************************************************************************)
(* Properties of the sequential runs.                                      *)
(***************************************************************************)
\* what a client reads for the code with an id: the row GET
\* /serial-numbers/:id selects, or in the JSON-file revision the entry of
\* GET /serial-numbers with that id
GotCode(rows, file, id) ==
  IF rev = "json"
  THEN IF FindIndex(file.serialNumbers, id) = 0 THEN <<>>
       ELSE <<file.serialNumbers[FindIndex(file.serialNumbers, id)]>>
  ELSE IF id \in IdsOf(rows) THEN <<CHOOSE row \in rows : row.id = id>>
       ELSE <<>>

\* a request with handler h has run in this step and was answered status
Answered(h, status) ==
  /\ started' = started + 1
  /\ req'.h = h
  /\ req'.status = status

\* C12: GET /items/:id, a PUT /items/:id with name and location answered
\* 200, GET /items/:id: the second GET has name, location and a submitted
\* information as the PUT gave them, the id and created_at of the first GET,
\* and an updated_at later than that of the first GET.
PutThenGetReflects ==
  [][(Answered("PUT /items/:id", 200) /\ ~LacksRequired(req'.h, req'.b))
       => LET before == GotItem(items, dataFile, req'.p)
              after == GotItem(items', dataFile', req'.p)
          IN /\ before # <<>>
             /\ after # <<>>
             /\ after[1].name = req'.b.name
             /\ after[1].location = req'.b.location
             /\ req'.b.information # ABSENT
                  => after[1].information = req'.b.information
             /\ after[1].id = before[1].id
             /\ after[1].created_at = before[1].created_at
             /\ before[1].updated_at.t = "date"
             /\ after[1].updated_at.t = "date"
             /\ after[1].updated_at.wall > before[1].updated_at.wall
    ]_vars

\* the value a column has after an update that was given field x of the
\* body for it: x when present, the stored value old when omitted
PartiallyReplaced(old, x) == IF x = ABSENT THEN old ELSE x

\* C13: a PUT /items/:id (with name and location) or PUT /serial-numbers/:id
\* answered 200 replaces the columns whose fields the body has, keeps the
\* others as stored, and sets updated_at to the time of the request.
UpdateKeepsOmittedFields ==
  [][/\ (Answered("PUT /items/:id", 200) /\ ~LacksRequired(req'.h, req'.b))
          => LET before == GotItem(items, dataFile, req'.p)[1]
                 after == GotItem(items', dataFile', req'.p)[1]
             IN /\ after.name = req'.b.name
                /\ after.location = req'.b.location
                /\ after.information =
                     PartiallyReplaced(before.information, req'.b.information)
                /\ after.updated_at = Stamp(clock')
     /\ Answered("PUT /serial-numbers/:id", 200)
          => LET before == GotCode(codes, dataFile, req'.p)[1]
                 after == GotCode(codes', dataFile', req'.p)[1]
             IN /\ after.kode_inventaris =
                     PartiallyReplaced(before.kode_inventaris,
                                       req'.b.serialNumber)
                /\ after.spesifikasi =
                     PartiallyReplaced(before.spesifikasi, req'.b.specs)
                /\ after.status =
                     PartiallyReplaced(before.status, req'.b.status)
                /\ after.item_id = before.item_id
                /\ after.date_added = before.date_added
                /\ after.updated_at = Stamp(clock')
    ]_vars

\* the value a column has after a creation that was given field x of the
\* body for it: x when present, the default d when omitted
Defaulted(x, d) == IF x = ABSENT THEN d ELSE x

\* C19: a POST /serial-numbers answered 201 has stored a code with
\* kode_inventaris and spesifikasi as given or '', status as given or
\* 'good', and date_added the time of the request when dateAdded is
\* omitted, and otherwise the instant of dateAdded written in UTC.
PostSerialStoresDefaults ==
  [][Answered("POST /serial-numbers", 201)
       => LET got == GotCode(codes', dataFile', req'.p)
              b == req'.b
          IN /\ got # <<>>
             /\ got[1].item_id = b.itemId
             /\ got[1].kode_inventaris = Defaulted(b.serialNumber, "")
             /\ got[1].spesifikasi = Defaulted(b.specs, "")
             /\ got[1].status = Defaulted(b.status, "good")
             /\ got[1].date_added =
                  IF b.dateAdded.t = "absent" THEN Stamp(clock')
                  ELSE Stamp(b.dateAdded.wall - b.dateAdded.offset)
    ]_vars

\* C20: in the PostgreSQL revisions GET /items and GET /serial-numbers
\* answer their rows by created_at, newest first, and the codes the 201 of
\* POST /items lists for the new item come by date_added, oldest first.
ListingsInStatedOrder ==
  [][/\ (\/ Answered("GET /items", 200)
         \/ Answered("GET /serial-numbers", 200)) /\ rev \in PgRevisions
          => \A j, k \in 1..Len(req'.list) :
               j < k => req'.list[j].created_at.wall >=
                          req'.list[k].created_at.wall
     /\ Answered("POST /items", 201) /\ rev \in {"final", "early"}
          => \A j, k \in 1..Len(req'.list) :
               j < k => req'.list[j].date_added.wall <=
                          req'.list[k].date_added.wall
    ]_vars

\* C21: the listings with derived counts (GET /items of "final", GET
\* /items-with-counts) hold every stored item exactly once, items without
\* codes included; the total of an item is the number of codes whose item_id
\* it is, its good and broken counts the numbers of those with status 'good'
\* and 'broken', so good + broken <= total, with equality exactly when no
\* code of the item has another status.
CountsListingIsExact ==
  [][/\ (Answered("GET /items", 200) /\ rev = "final")
          => /\ Len(req'.list) = Cardinality(items)
             /\ \A row \in items :
                  \E k \in 1..Len(req'.list) :
                    LET listed == req'.list[k]
                        own == {c \in codes : c.item_id = row.id}
                    IN /\ listed.id = row.id
                       /\ listed.jumlah = Cardinality(own)
                       /\ listed.baik =
                            Cardinality({c \in own : c.status = "good"})
                       /\ listed.rusak =
                            Cardinality({c \in own : c.status = "broken"})
                       /\ listed.baik + listed.rusak <= listed.jumlah
                       /\ listed.baik + listed.rusak = listed.jumlah
                            <=> \A c \in own : c.status \in {"good", "broken"}
     /\ Answered("GET /items-with-counts", 200)
          => /\ Len(req'.list) = Cardinality(items)
             /\ \A row \in items :
                  \E k \in 1..Len(req'.list) :
                    /\ req'.list[k].id = row.id
                    /\ req'.list[k].serial_count =
                         Cardinality({c \in codes : c.item_id = row.id})
    ]_vars

\* GET /items of "final" has listed an item without codes and an item with
\* a code that is neither good nor broken
ListedCountsOfMixedItems ==
  /\ rev = "final"
  /\ req.h = "GET /items"
  /\ req.status = 200
  /\ \E k \in 1..Len(req.list) : req.list[k].jumlah = 0
  /\ \E k \in 1..Len(req.list) :
       /\ req.list[k].baik > 0
       /\ req.list[k].baik + req.list[k].rusak < req.list[k].jumlah

(***************************************************************************)
(* The start of the server: initDatabase().then(() => app.listen(...)),    *)
(* and the init-database script of the SQLite revision (rev "sqlite",      *)
(* src/unnamed/part_000 1-75).  The store is what earlier runs and the     *)
(* requests served since have left; data.json, the sample data, is two     *)
(* items with a code each.  started counts the starts.                     *)
(***************************************************************************)
\* sampleData.items and sampleData.serialNumbers of data.json
SeedItems ==
  <<ItemRow(101, "PC Desktop", "Lenovo", "Lab 1"),
    ItemRow(102, "Printer", "HP", "Lab 2")>>

SeedCodes ==
  <<CodeRow(201, 101, "SN1", "i5", "good"),
    CodeRow(202, 102, "SN2", "", "broken")>>

\* the stores a start may find: of the sample rows and of one item and code
\* that clients have created, those that were not deleted since
BootStores ==
  {st \in [items : SUBSET ({SeedItems[k] : k \in 1..Len(SeedItems)}
                             \cup {ItemRow(1, "Scanner", NULL, "Lab 1")}),
           codes : SUBSET ({SeedCodes[k] : k \in 1..Len(SeedCodes)}
                             \cup {CodeRow(2, 1, "", "", "good")})] :
     \A c \in st.codes : c.item_id \in IdsOf(st.items)}

\* the catch and finally blocks of initDatabase and importSampleData: the
\* error is logged, the clients are released and initDatabase returns
InitReturn(b, failed) ==
  [b EXCEPT !.pc = "done", !.i = 0, !.held = 0, !.failed = @ \/ failed]

\* const client = await pool.connect(), before the try block: a rejection
\* rejects initDatabase().  The script opens its database file.
InitConnect ==
  /\ boot.pc = "connect"
  /\ \/ /\ rev = "sqlite" \/ boot.held < boot.size
        /\ boot' = [boot EXCEPT !.pc = "createItems",
                                !.held = IF rev = "sqlite" THEN 0 ELSE @ + 1]
     \/ /\ rev # "sqlite"
        /\ boot' = [boot EXCEPT !.pc = "rejected", !.failed = TRUE]
  /\ UNCHANGED <<rev, rooms, items, codes, tx, req, nextId, started, dataFile,
                 clock>>

\* CREATE TABLE IF NOT EXISTS items, then inventory_codes; a statement that
\* fails throws into the catch block
InitCreateTable ==
  /\ boot.pc \in {"createItems", "createCodes"}
  /\ \/ boot' = [boot EXCEPT
                   !.tables = @ \cup {IF boot.pc = "createItems" THEN "items"
                                      ELSE "inventory_codes"},
                   !.pc = CASE boot.pc = "createItems" -> "createCodes"
                            [] rev = "sqlite" -> "insertItems"
                            [] rev = "part001" -> "done"
                            [] OTHER -> "count",
                   !.i = IF boot.pc = "createCodes" /\ rev = "sqlite"
                         THEN 1 ELSE 0,
                   !.held = IF boot.pc = "createCodes" /\ rev = "part001"
                            THEN 0 ELSE @]
     \/ /\ rev # "sqlite"
        /\ boot' = InitReturn(boot, TRUE)
  /\ UNCHANGED <<rev, rooms, items, codes, tx, req, nextId, started, dataFile,
                 clock>>

\* SELECT COUNT(*) as count FROM items; count === '0': importSampleData()
InitCount ==
  /\ boot.pc = "count"
  /\ \/ boot' = IF items = {} THEN [boot EXCEPT !.pc = "importConnect"]
                ELSE InitReturn(boot, FALSE)
     \/ boot' = InitReturn(boot, TRUE)
  /\ UNCHANGED <<rev, rooms, items, codes, tx, req, nextId, started, dataFile,
                 clock>>

\* importSampleData: const client = await pool.connect(), while
\* initDatabase holds its own client; with no client free the call waits
ImportConnect ==
  /\ boot.pc = "importConnect"
  /\ boot.held < boot.size
  /\ \/ boot' = [boot EXCEPT !.pc = "insertItems", !.i = 1, !.held = @ + 1]
     \/ boot' = InitReturn(boot, TRUE)
  /\ UNCHANGED <<rev, rooms, items, codes, tx, req, nextId, started, dataFile,
                 clock>>

\* INSERT INTO items ... ON CONFLICT (id) DO NOTHING for each sample item,
\* then INSERT INTO inventory_codes ... ON CONFLICT (id) DO NOTHING for each
\* sample code (INSERT OR IGNORE in the script, whose SQLite connection does
\* not enforce the foreign key)
ImportInsert ==
  \/ /\ boot.pc = "insertItems"
     /\ \/ /\ items' = items \cup
                         {row \in {SeedItems[boot.i]} : row.id \notin IdsOf(items)}
           /\ boot' = IF boot.i < Len(SeedItems)
                      THEN [boot EXCEPT !.i = @ + 1]
                      ELSE [boot EXCEPT !.pc = "insertCodes", !.i = 1]
        \/ /\ rev # "sqlite"
           /\ boot' = InitReturn(boot, TRUE)
           /\ UNCHANGED items
     /\ UNCHANGED <<rev, rooms, codes, tx, req, nextId, started, dataFile,
                    clock>>
  \/ /\ boot.pc = "insertCodes"
     /\ \/ /\ rev = "sqlite" \/ SeedCodes[boot.i].item_id \in IdsOf(items)
           /\ codes' = codes \cup
                         {row \in {SeedCodes[boot.i]} : row.id \notin IdsOf(codes)}
           /\ boot' = IF boot.i < Len(SeedCodes)
                      THEN [boot EXCEPT !.i = @ + 1]
                      ELSE InitReturn(boot, FALSE)
        \/ /\ rev # "sqlite"
           /\ boot' = InitReturn(boot, TRUE)
           /\ UNCHANGED codes
     /\ UNCHANGED <<rev, rooms, items, tx, req, nextId, started, dataFile,
                    clock>>

\* .then(() => app.listen(port, ...)) once initDatabase() has resolved
Listen ==
  /\ rev # "sqlite"
  /\ boot.pc = "done"
  /\ ~boot.listening
  /\ boot' = [boot EXCEPT !.listening = TRUE]
  /\ UNCHANGED <<rev, rooms, items, codes, tx, req, nextId, started, dataFile,
                 clock>>

\* the process ends and the server (the script) is started again
Restart ==
  /\ started < MaxBoots
  /\ \/ boot.listening
     \/ boot.pc = "rejected"
     \/ rev = "sqlite" /\ boot.pc = "done"
  /\ started' = started + 1
  /\ boot' = [boot EXCEPT !.pc = "connect", !.i = 0, !.held = 0,
                          !.listening = FALSE,
                          !.before = Store(items, codes)]
  /\ UNCHANGED <<rev, rooms, items, codes, tx, req, nextId, dataFile, clock>>

BootInit ==
  /\ rev \in PgRevisions \cup {"sqlite"}
  /\ \E st \in BootStores, size \in 1..MaxPool, tables \in {{}, AllTables} :
       /\ st.items # {} => tables = AllTables
       /\ items = st.items
       /\ codes = st.codes
       /\ boot = [pc |-> "connect", i |-> 0, held |-> 0, size |-> size,
                  tables |-> tables, listening |-> FALSE, failed |-> FALSE,
                  before |-> st]
  /\ tx = [r \in Reqs |-> NoTx]
  /\ req = NoExchange
  /\ nextId = 0
  /\ started = 1
  /\ dataFile = [items |-> <<>>, serialNumbers |-> <<>>]
  /\ clock = 1
  /\ rooms = {}

BootNext ==
  \/ InitConnect \/ InitCreateTable \/ InitCount
  \/ ImportConnect \/ ImportInsert
  \/ Listen \/ Restart

BootSpec == BootInit /\ [][BootNext]_vars

\* C22: a run of the initialization that finds at least one item leaves
\* every item and code row as it found them, and a second run after a first
\* (no statement of either having failed) leaves the store of the first.
InitKeepsStore ==
  boot.pc = "done"
    => /\ boot.before.items # {}
            => Store(items, codes) = boot.before
       /\ (started = MaxBoots /\ ~boot.failed)
            => Store(items, codes) = boot.before

\* C25: no startup routine waits for a pooled client while it holds one and
\* none is free.
NoWaitHoldingClient ==
  ~(boot.pc = "importConnect" /\ boot.held > 0 /\ boot.held = boot.size)

\* C30: the server listens only once initDatabase has returned, and then
\* both tables exist.
ListensWithTables ==
  boot.listening => boot.pc = "done" /\ boot.tables = AllTables

\* C23: a DELETE /rooms/:id answered 200 removes every item whose location
\* is the room's name and every code of those items, and leaves the items
\* of every other location and their codes as they were.
DeleteRoomRemovesItsItems ==
  [][Answered("DELETE /rooms/:id", 200)
       => /\ items' = {row \in items : row.location # req'.b.location}
          /\ codes' = {c \in codes : c.item_id \in IdsOf(items')}
    ]_vars

\* a room was deleted with an item of its own (fewer rows are left than ids
\* were handed out) while another room's item and its codes stayed
DeletedRoomOfSomeItems ==
  /\ req.h = "DELETE /rooms/:id"
  /\ req.status = 200
  /\ items # {}
  /\ codes # {}
  /\ nextId > Cardinality(items) + Cardinality(codes)

\* the handlers that address a row by the id of the path
Addressed ==
  {"PUT /items/:id", "DELETE /items/:id",
   "PUT /serial-numbers/:id", "DELETE /serial-numbers/:id"}

\* C24: in the PostgreSQL revisions a PUT or DELETE (with its required
\* fields) addressed to an id that no row has changes no item and no code
\* and is answered 404 unless a store call fails; a DELETE
\* /serial-numbers/:id answered 200 has removed the code of that id and no
\* other row, and one that finds the code gone is answered 404.
AbsentIdChangesNothing ==
  [][\A r \in Reqs :
       (rev \in PgRevisions /\ req'[r] # req[r] /\ req'[r].h \in Addressed)
         => /\ (req'[r].p = 0 /\ ~LacksRequired(req'[r].h, req'[r].b))
                 => /\ items' = items
                    /\ codes' = codes
                    /\ tx'[r] \in {NoTx, [NoTx EXCEPT !.st = "open"]}
                    /\ req'[r].pc = "done"
                         => req'[r].resp.status \in {404, 500, 0}
            /\ (req'[r].h = "DELETE /serial-numbers/:id" /\ req'[r].pc = "done")
                 => /\ req'[r].resp.status \in {200, 404, 500}
                    /\ req'[r].resp.status = 200
                         => /\ req'[r].p \in IdsOf(codes)
                            /\ codes' = {c \in codes : c.id # req'[r].p}
                            /\ Cardinality(codes') = Cardinality(codes) - 1
                            /\ items' = items
                    /\ req'[r].resp.status = 404
                         => /\ req'[r].p \notin IdsOf(codes)
                            /\ codes' = codes
                            /\ items' = items
    ]_vars

\* a DELETE /serial-numbers/:id was answered 404 for a code that another
\* DELETE of the same id, answered 200, had removed
DeleteSerialRepeated ==
  \E r, o \in Reqs :
    /\ rev \in PgRevisions
    /\ req[r].h = "DELETE /serial-numbers/:id"
    /\ req[o].h = "DELETE /serial-numbers/:id"
    /\ req[r].pc = "done" /\ req[o].pc = "done"
    /\ req[r].p = req[o].p /\ req[r].p # 0
    /\ req[r].resp.status = 200
    /\ req[o].resp.status = 404

\* C26: a transactional handler answers with its success status only in the
\* step in which its COMMIT succeeds, the rows of its transaction becoming
\* the committed rows (among them the codes POST /items read back for its
\* response); a handler whose COMMIT fails answers 500.
SuccessOnlyAfterCommit ==
  [][\A r \in Reqs :
       (/\ Transactional(rev, req'[r].h)
        /\ req'[r] # req[r]
        /\ req'[r].pc = "done")
         => /\ req'[r].resp.status = SuccessStatus(req'[r].h)
                 => /\ req[r].pc = "commit"
                    /\ tx[r].st = "open"
                    /\ items' = CommittedItems(tx[r])
                    /\ codes' = CommittedCodes(tx[r])
                    /\ req[r].read \subseteq codes'
            /\ (/\ req[r].pc = "commit"
                /\ req'[r].resp.status # SuccessStatus(req'[r].h))
                 => /\ req'[r].resp.status = 500
                    /\ items' = items
                    /\ codes' = codes
    ]_vars

\* C27: of two DELETE /items/:id for the same item that ran at the same
\* time and were both answered 200 or 404, one was answered 200 and the
\* other 404.
ConcurrentDeletesAnswerOnce ==
  \A r, o \in Reqs :
    (/\ rev \in PgRevisions
     /\ r # o
     /\ req[r].h = "DELETE /items/:id" /\ req[o].h = "DELETE /items/:id"
     /\ req[r].pc = "done" /\ req[o].pc = "done"
     /\ req[r].p = req[o].p /\ req[r].p # 0
     /\ req[r].resp.status \in {200, 404}
     /\ req[o].resp.status \in {200, 404})
      => req[r].resp.status # req[o].resp.status


(***************************************************************************)
(* POST /serial-numbers with a dateAdded that does not parse.              *)
(***************************************************************************)
\* C28: in "final" and "part001", the step POST /serial-numbers takes at its
\* INSERT with an unparsable dateAdded ends the handler with status 500,
\* with no open transaction, with the connection released, with no row of
\* either table changed and without a code of the request's id.
UnparsableDateRollsBack ==
  [][\A r \in Reqs :
       (/\ rev \in {"final", "part001"}
        /\ At(r, "POST /serial-numbers", "insertCode")
        /\ req[r].b.dateAdded = UnparsableDate
        /\ req'[r] # req[r])
         => /\ req'[r].pc = "done"
            /\ req'[r].resp.status = 500
            /\ tx'[r] = NoTx
            /\ ~req'[r].client
            /\ items' = items
            /\ codes' = codes
            /\ req[r].id \notin IdsOf(codes')]_vars

\* POST /serial-numbers of "final" has answered 500 for the RangeError, the
\* item of its itemId being in the table
UnparsableDateAnswered ==
  \E r \in Reqs :
    /\ rev = "final"
    /\ req[r].h = "POST /serial-numbers"
    /\ req[r].pc = "done"
    /\ req[r].resp.status = 500
    /\ req[r].resp.err = "range"
    /\ req[r].b.itemId \in IdsOf(items)
    /\ tx[r] = NoTx
    /\ ~req[r].client


(***************************************************************************)
(* Revision "json": what one handler's write keeps of the file.            *)
(***************************************************************************)
\* the rows of a list of the file whose id is not id, in their order
Without(rows, id) == SelectSeq(rows, LAMBDA row : row.id # id)

\* rows with one more row, of the given id, at its end
Pushed(rows, after, id) ==
  /\ Len(after) = Len(rows) + 1
  /\ SubSeq(after, 1, Len(rows)) = rows
  /\ after[Len(after)].id = id

\* C29: in the JSON-file revision the file changes only in the step of one
\* request (the one that enters the first free slot and answers in the same
\* step), and that step's write is the file as the step found it with
\* that request's change alone: a POST keeps every row and adds its own at
\* the end, a PUT or DELETE keeps every row of another id (DELETE
\* /items/:id drops the serial numbers of the item as well), and a 404 or a
\* GET writes nothing.
JsonWritesKeepOtherUpdates ==
  [][rev = "json" =>
       /\ started' = started => dataFile' = dataFile
       /\ \A r \in Reqs :
            (FirstFree(r) /\ started' = started + 1) =>
              LET h == req'[r].h
                  p == req'[r].p
                  ok == req'[r].resp.status \in {200, 201}
                  was == dataFile
                  now == dataFile'
              IN /\ ~ok => now = was
                 /\ h = "GET /serial-numbers" => now = was
                 /\ (ok /\ h = "POST /items") =>
                      /\ Pushed(was.items, now.items, req'[r].id)
                      /\ now.serialNumbers = was.serialNumbers
                 /\ (ok /\ h = "POST /serial-numbers") =>
                      /\ Pushed(was.serialNumbers, now.serialNumbers,
                                req'[r].id)
                      /\ now.items = was.items
                 /\ (ok /\ h = "PUT /items/:id") =>
                      /\ Len(now.items) = Len(was.items)
                      /\ Without(now.items, p) = Without(was.items, p)
                      /\ now.serialNumbers = was.serialNumbers
                 /\ (ok /\ h = "PUT /serial-numbers/:id") =>
                      /\ Len(now.serialNumbers) = Len(was.serialNumbers)
                      /\ Without(now.serialNumbers, p)
                           = Without(was.serialNumbers, p)
                      /\ now.items = was.items
                 /\ (ok /\ h = "DELETE /serial-numbers/:id") =>
                      /\ Len(now.serialNumbers) = Len(was.serialNumbers) - 1
                      /\ Without(now.serialNumbers, p)
                           = Without(was.serialNumbers, p)
                      /\ now.items = was.items
                 /\ (ok /\ h = "DELETE /items/:id") =>
                      /\ Len(now.items) = Len(was.items) - 1
                      /\ Without(now.items, p) = Without(was.items, p)
                      /\ now.serialNumbers
                           = SelectSeq(was.serialNumbers,
                                       LAMBDA row : row.item_id # p)]_vars

\* two requests of the JSON-file revision have run, both POST /items, and
\* the file holds the rows of both
JsonBothPostsInFile ==
  /\ rev = "json"
  /\ started = 2
  /\ Len(dataFile.items) = 2
  /\ \E r \in Reqs : req[r].h = "POST /items" /\ req[r].resp.status = 201

====
